---- MODULE Spec2Model ----
(***************************************************************************)
(* Model of repro-build (repx): the build driver build_with_nix, the       *)
(* per-target loop execute_nix_build, the command executor                 *)
(* execute_command and the session logger BuildLogger.                     *)
(*                                                                         *)
(* Environment: every Docker call, every command run in the container and  *)
(* every append to the log file may fail; the outcome is chosen            *)
(* nondeterministically.  The other calls on the local file system (the    *)
(* rename and the removal of flake.nix.new, the copy of flake.lock) are     *)
(* taken to succeed.  Text is a sequence of characters, a log file a       *)
(* sequence of written blocks, a command's output a sequence of chunks.    *)
(*                                                                         *)
(* Specifications:                                                         *)
(*   Spec       one session of build_with_nix, start to return             *)
(*   SpecDesc   the descriptor step of build_with_nix over all short texts *)
(*   SpecBuild  execute_nix_build called on a running container            *)
(*   SpecLog    the BuildLogger API called in any order                    *)
(*   SpecExec   execute_command on any short output stream                 *)
(***************************************************************************)
EXTENDS Integers, Sequences, FiniteSets, TLC

\* ---------------------------------------------------------------- bounds
\* longest target list given to execute_nix_build in SpecBuild and SpecTargets
MaxTargets == 2
\* longest target list given to build_with_nix in Spec
MaxSessionTargets == 1
\* longest flake text (characters) in SpecDesc
MaxTextLen == 2
\* most logging calls on one BuildLogger in SpecLog
MaxLogCalls == 3
\* most flush calls on one BuildLogger in SpecLog
MaxFlushes == 2
\* longest output stream (items) of one command in SpecExec
MaxChunks == 3
\* build sessions sharing one Docker host in SpecNames
MaxSessions == 2
\* last instant (in ticks) of the clock in SpecNames
MaxClock == 3
\* tasks that call log on one BuildLogger in SpecConc
MaxCallers == 2
\* log calls one task makes in SpecConc
MaxCallsEach == 2
\* most chunks one command yields in SpecProgress
MaxProgressChunks == 11
\* last instant (in ticks) of the clock in SpecProgress
MaxProgressClock == 3
\* most pieces of a target string in SpecCli
MaxPieces == 3
\* applications of merge_config_with_args in SpecMerge
MaxMerges == 2
\* runs of `repx init` in SpecInit
MaxInitRuns == 3

VARIABLES
    pc,                     \* position of the running function
    targets,                \* targets: &[&str]
    ti,                     \* index of the target the for-loop is at
    all_builds_successful,  \* execute_build.rs:34
    build_result,           \* lib.rs:183, "none" until execute_nix_build returned
    result,                 \* what build_with_nix returned, "none" while running
    failedAt,               \* the step whose error build_with_nix propagated
    container,              \* "none", "created", "running", "removed"
    cleanupCalls,           \* number of cleanup_container invocations
    cleanupFailed,          \* cleanup_container returned Err
    flakeFile,              \* content of .repx/flake.nix, Absent if missing
    tempFile,               \* content of .repx/flake.nix.new, Absent if missing
    rendered,               \* what the template renders to for this session
    generated_content,      \* lib.rs:112, Absent until generated
    flakeBefore,            \* content of .repx/flake.nix when the session began
    flakeWrites,            \* number of times .repx/flake.nix was replaced
    cmds,                   \* commands run through execute_command, in order
    link,                   \* state of ./result-<target>, per target name
    outDirs,                \* targets whose ./target/repro-build/<t> exists
    staged,                 \* targets whose artifacts were copied
    nix_build_cmd,          \* execute_build.rs:47, <<>> before the first target
    log_buffer,             \* BuildLogger.log_buffer
    log_file,               \* content of the file at BuildLogger.log_file
    logCalls,               \* entries passed to log, in call order
    logFailed,              \* some log call returned Err
    flushes,                \* number of flush calls that returned Ok
    exStream,               \* items the exec output stream yields
    exPos,                  \* number of items taken from the stream
    full_output,            \* execute_command.rs:28
    exit_code,              \* what inspect_exec reports
    exResult,               \* what execute_command returned, "none" while running
    cmd,                    \* execute_command.rs:9, the command string
    exError,                \* message of the returned error, <<>> if none
    error_messages,         \* execute_command.rs:36
    diagnostics,            \* the lines printed under "Error details/context"
    now,                    \* the system clock, in ticks
    hostNames,              \* names of the containers on the Docker host
    session,                \* per build session: where its setup_container is
    output_chunk,           \* execute_command.rs:39, the chunk just taken
    last_update,            \* execute_command.rs:33, as an instant of `now`
    important_message_count, \* execute_command.rs:35
    last_displayed_count,   \* execute_command.rs:37
    last_progress,          \* execute_command.rs:31
    redraws,                \* the redraws of the status line, in order
    logging,                \* per task calling log: where its call is
    gfl_i,                  \* generate_lock.rs:40, commands taken from the list
    gfl_ran,                \* the commands started in the container, in order
    gfl_result,             \* what generate_flake_lock returned, "none" before
    shell_env,              \* variables of the shell of the last command run
    flake_pkg,              \* pname and version written in .repx/flake.nix
    crate,                  \* name and version in the project's Cargo.toml
    flake_lock,             \* .repx/flake.lock: "absent" or "present"
    flake_lock_mode,        \* permissions of .repx/flake.lock
    args,                   \* main.rs:213, the parsed command line
    base_config,            \* main.rs:223, what load_config returned
    final_config,           \* main.rs:226, <<>> before the merge
    merges,                 \* number of merge_config_with_args applications
    split_targets,          \* main.rs:248, `t`, the split target string
    main_result,            \* what main returned, <<>> while running
    target_path,            \* main.rs:275, where main looks for artifacts
    repx_toml,              \* content of repx.toml, Absent if missing
    init_runs               \* results of the init_config runs, in order

driverVars == <<pc, targets, ti, all_builds_successful, build_result, result,
                failedAt, container, cleanupCalls, cleanupFailed>>
flakeVars == <<flakeFile, tempFile, rendered, generated_content, flakeBefore,
               flakeWrites>>
cmdVars == <<cmds, link, outDirs, staged, nix_build_cmd>>
logVars == <<log_buffer, log_file, logCalls, logFailed, flushes>>
execVars == <<exStream, exPos, full_output, exit_code, exResult, cmd,
              exError, error_messages, diagnostics>>
hostVars == <<now, hostNames, session>>
progVars == <<output_chunk, last_update, important_message_count,
              last_displayed_count, last_progress, redraws>>
concVars == <<logging>>
lockVars == <<gfl_i, gfl_ran, gfl_result, shell_env, flake_pkg, crate,
              flake_lock, flake_lock_mode>>
cliVars == <<args, base_config, final_config, merges, split_targets,
             main_result, target_path, repx_toml, init_runs>>
vars == <<driverVars, flakeVars, cmdVars, logVars, execVars, hostVars, progVars,
                   concVars, lockVars, cliVars>>

\* a file that does not exist: a text that is no text, a log that is no log
Absent == <<"Absent">>
NoFile == << <<"NoFile">> >>

SeqsUpTo(S, n) == UNION {[1..k -> S] : k \in 0..n}

\* ================================================================ logging
\* logging.rs:39-47, the header block File::create + write_all put in the file
Header == <<"=== repx Log ===", "Build ID", "Timestamp">>

\* logging.rs:73, format!("[{}] {}\n", timestamp, message); a message is a
\* tuple of its fixed text and the values formatted into it
LogEntry(message) == <<"[ts]", message>>

\* logging.rs:94-99, the message log_command passes to log
CommandMessage(command, output) == <<"Command:", command, "Output:", output>>

\* logging.rs:106-112, the message log_build_config passes to log
ConfigMessage(config) == <<"Build Configuration:", config>>

\* logging.rs:117-124, the message log_build_completion passes to log
CompletionMessage(success) ==
    <<"=== Build Complete ===", IF success THEN "SUCCESS" ELSE "FAILURE">>

\* A run of consecutive log calls with messages ms.  f = 0: every call
\* returns Ok.  f > 0: call number f fails to append to the file and returns
\* Err, so that the calls after it are not made (every caller uses `?`).
\* logging.rs:76-79: the entry is pushed on the buffer before the file is
\* opened, so the failing call's entry is in the buffer.
BufferAfter(buf, ms, f) ==
    buf \o [k \in 1..(IF f = 0 THEN Len(ms) ELSE f) |-> LogEntry(ms[k])]

\* logging.rs:82-87: the entry is appended to the file unless the open or the
\* write failed.
FileAfter(file, ms, f) ==
    file \o [k \in 1..(IF f = 0 THEN Len(ms) ELSE f - 1) |-> LogEntry(ms[k])]

\* logging.rs:129-145: flush appends the whole buffer to the file; the buffer
\* is cloned, never cleared.
FileAfterFlush(file, buf) == IF buf # <<>> THEN file \o buf ELSE file

\* the log variables after the calls ms with failure point f, made on a
\* logger whose file holds `file`
LogCallsMadeOn(file, ms, f) ==
    /\ log_buffer' = BufferAfter(log_buffer, ms, f)
    /\ log_file' = FileAfter(file, ms, f)
    /\ logCalls' = logCalls \o [k \in 1..(IF f = 0 THEN Len(ms) ELSE f) |-> LogEntry(ms[k])]
    /\ logFailed' = (logFailed \/ f # 0)
    /\ UNCHANGED flushes

LogCallsMade(ms, f) == LogCallsMadeOn(log_file, ms, f)

\* the failure points of a run of n log calls: none, or call number 1..n
FailPoints(n) == 0..n

\* ---- the BuildLogger API called directly (SpecLog)
LogMessages == {<<"m1">>, <<"m2">>}
LogCommands == {<<"cmd">>}
LogOutputs == {"out"}

LoggerIdle == pc = "logger" /\ Len(logCalls) < MaxLogCalls

\* BuildLogger::log
Log ==
    /\ LoggerIdle
    /\ \E m \in LogMessages, f \in 0..1 : LogCallsMade(<<m>>, f)
    /\ UNCHANGED <<driverVars, flakeVars, cmdVars, execVars, hostVars, progVars,
                   concVars, lockVars, cliVars>>

\* BuildLogger::log_command
LogCommand ==
    /\ LoggerIdle
    /\ \E c \in LogCommands, o \in LogOutputs, f \in 0..1 :
          LogCallsMade(<<CommandMessage(c, o)>>, f)
    /\ UNCHANGED <<driverVars, flakeVars, cmdVars, execVars, hostVars, progVars,
                   concVars, lockVars, cliVars>>

\* BuildLogger::log_build_config
LogBuildConfig ==
    /\ LoggerIdle
    /\ \E f \in 0..1 : LogCallsMade(<<ConfigMessage("config")>>, f)
    /\ UNCHANGED <<driverVars, flakeVars, cmdVars, execVars, hostVars, progVars,
                   concVars, lockVars, cliVars>>

\* BuildLogger::log_build_completion
LogBuildCompletion ==
    /\ LoggerIdle
    /\ \E s \in BOOLEAN, f \in 0..1 : LogCallsMade(<<CompletionMessage(s)>>, f)
    /\ UNCHANGED <<driverVars, flakeVars, cmdVars, execVars, hostVars, progVars,
                   concVars, lockVars, cliVars>>

\* BuildLogger::flush; the open or the write may fail, then nothing is written
Flush ==
    /\ pc = "logger"
    /\ flushes < MaxFlushes
    /\ \E ok \in BOOLEAN :
          /\ (log_buffer = <<>> => ok)
          /\ log_file' = IF ok THEN FileAfterFlush(log_file, log_buffer) ELSE log_file
          /\ flushes' = IF ok THEN flushes + 1 ELSE flushes
          /\ logFailed' = (logFailed \/ ~ok)
    /\ UNCHANGED <<log_buffer, logCalls>>
    /\ UNCHANGED <<driverVars, flakeVars, cmdVars, execVars, hostVars, progVars,
                   concVars, lockVars, cliVars>>

NextLog == Log \/ LogCommand \/ LogBuildConfig \/ LogBuildCompletion \/ Flush

\* ---------------------------------------------------------------- tasks
\* Several tasks hold the same BuildLogger and call log.  A call is two
\* steps: the push onto the buffer inside the lock (logging.rs:76-79) and,
\* after the awaits of lines 82-85, the append to the file (line 87).
Callers == 1..MaxCallers

\* the message of the n-th call of task c
MessageOf(c, n) == <<"message", c, n>>

\* logging.rs:68-79: format the entry, lock, push, unlock
ConcPush(c) ==
    /\ pc = "tasks"
    /\ logging[c].at = "idle"
    /\ logging[c].n < MaxCallsEach
    /\ LET entry == LogEntry(MessageOf(c, logging[c].n + 1)) IN
          /\ log_buffer' = Append(log_buffer, entry)
          /\ logCalls' = Append(logCalls, entry)
          /\ logging' = [logging EXCEPT ![c] =
                            [at |-> "pushed", n |-> logging[c].n + 1,
                             entry |-> entry]]
    /\ UNCHANGED <<log_file, logFailed, flushes>>
    /\ UNCHANGED <<driverVars, flakeVars, cmdVars, execVars>>
    /\ UNCHANGED <<hostVars, progVars, lockVars, cliVars>>

\* logging.rs:82-89: open the file for append, write the entry, return
ConcWrite(c) ==
    /\ pc = "tasks"
    /\ logging[c].at = "pushed"
    /\ \E ok \in BOOLEAN :
          /\ log_file' = IF ok THEN Append(log_file, logging[c].entry)
                         ELSE log_file
          /\ logFailed' = (logFailed \/ ~ok)
    /\ logging' = [logging EXCEPT ![c].at = "idle"]
    /\ UNCHANGED <<log_buffer, logCalls, flushes>>
    /\ UNCHANGED <<driverVars, flakeVars, cmdVars, execVars>>
    /\ UNCHANGED <<hostVars, progVars, lockVars, cliVars>>

NextConc == \E c \in Callers : ConcPush(c) \/ ConcWrite(c)

\* ================================================================ texts
CR == "CR"
LF == "LF"
Chars == {"a", "b", CR, LF}

\* str::replace("\r\n", "\n")
RECURSIVE ReplaceCRLF(_)
ReplaceCRLF(s) ==
    IF s = <<>> THEN <<>>
    ELSE IF Len(s) >= 2 /\ s[1] = CR /\ s[2] = LF
         THEN <<LF>> \o ReplaceCRLF(SubSeq(s, 3, Len(s)))
         ELSE <<s[1]>> \o ReplaceCRLF(Tail(s))

\* str::replace("\r", "\n")
ReplaceCR(s) == [k \in 1..Len(s) |-> IF s[k] = CR THEN LF ELSE s[k]]

\* .replace("\r\n", "\n").replace("\r", "\n")
Normalize(s) == ReplaceCR(ReplaceCRLF(s))

\* FlakeNeedsUpdate comparing the bytes, without normalization
FlakeNeedsUpdateRaw(existing, generated) ==
    existing = Absent \/ existing # generated

\* lib.rs:118, the condition under which the generated file replaces flake.nix
FlakeNeedsUpdate(existing, generated) ==
    existing = Absent \/ Normalize(existing) # Normalize(generated)

\* ================================================================ driver
TargetIds == {"x86_64-linux-gnu", "x86_64-pc-windows-msvc"}

\* main.rs:46-56
AVAILABLE_TARGETS ==
    {"x86_64-linux-gnu", "aarch64-linux-gnu", "x86_64-linux-musl",
     "aarch64-linux-musl", "x86_64-w64-mingw32", "x86_64-pc-windows-msvc",
     "aarch64-w64-mingw32", "x86_64-apple-darwin", "aarch64-apple-darwin"}

\* execute_build.rs:10-16, the identifiers parse_target has an arm for
ParseArms ==
    {"x86_64-linux-gnu", "aarch64-linux-gnu", "x86_64-linux-musl",
     "aarch64-linux-musl", "x86_64-w64-mingw32", "x86_64-pc-windows-msvc",
     "aarch64-w64-mingw32"}

\* the strings parse_target is applied to in SpecTargets: every available
\* target, an identifier no list knows, and the empty string
Identifiers == AVAILABLE_TARGETS \cup {"riscv64-linux-gnu", ""}

\* parse_target with the fallback arm replacing an identifier it has no arm
\* for by the default target
parse_targetDefaulting(target) ==
    <<IF target \in ParseArms THEN target ELSE "x86_64-linux-gnu",
      target = "x86_64-pc-windows-msvc",
      target \in {"x86_64-linux-musl", "aarch64-linux-musl"}>>

\* execute_build.rs:7-19, (actual_target_name_for_flake, is_windows_msvc,
\* is_static_musl)
parse_target(target) ==
    <<target,
      target = "x86_64-pc-windows-msvc",
      target \in {"x86_64-linux-musl", "aarch64-linux-musl"}>>

\* the command strings of build_with_nix and execute_nix_build
CommandText(kind, t) ==
    CASE kind = "git" -> <<"git config --global --add safe.directory /app">>
      [] kind = "cargo_lock" -> <<"cargo generate-lockfile">>
      [] kind = "flake_lock" -> <<"nix flake lock">>
      [] kind = "root" -> <<"mkdir -p ./target/repro-build">>
      [] kind = "build" ->
            <<"nix build",
              IF parse_target(t)[2] THEN "--option sandbox false" ELSE "",
              "./.repro-build#", parse_target(t)[1],
              "--out-link ./result-", parse_target(t)[1]>>
      [] kind = "diag" -> <<"cat .repro-build/flake.nix">>
      [] kind = "check" -> <<"[ -L ./result-", t, " ] && [ -e ./result-", t, " ]">>
      [] kind = "mkdir" -> <<"mkdir -p ./target/repro-build/", t>>
      [] kind = "copy" ->
            <<"tar -C ./result-", t, "| tar -C ./target/repro-build/", t>>
      [] kind = "fallback" ->
            <<"cp -r ./result-", t, "./target/repro-build/", t>>
      [] kind = "rm" -> <<"rm -rf ./result-", t>>

\* what a command that ran to exit status 0 printed.  execute_build.rs:73:
\* the check prints "true" for a live link and "false" otherwise, and exits
\* with status 0 either way.
CommandOutput(kind, live) ==
    IF kind = "check" THEN (IF live THEN "true" ELSE "false") ELSE "out"

\* the target the loop is at
Target == targets[ti]

\* Fatal without the `?` after generate_flake_file: the session goes on to
\* provision the container
FatalAfterGenerateGoesOn(step) ==
    /\ pc' = IF step = "generate_flake" THEN "setup" ELSE "done"
    /\ result' = "Err"
    /\ failedAt' = step

\* build_with_nix propagates an error with `?`
Fatal(step) ==
    /\ pc' = "done"
    /\ result' = "Err"
    /\ failedAt' = step

\* lib.rs:81-105: Docker connection, metadata directory, .gitignore,
\* BuildLogger::new, log_build_config
BwnInit ==
    /\ pc = "start"
    /\ \E ok \in BOOLEAN, f \in FailPoints(1) :
          IF ~ok
          THEN /\ Fatal("init")
               /\ UNCHANGED logVars
          ELSE /\ LogCallsMadeOn(<<Header>>, <<ConfigMessage("config")>>, f)
               /\ IF f # 0
                  THEN Fatal("log")
                  ELSE pc' = "generate" /\ UNCHANGED <<result, failedAt>>
    /\ UNCHANGED <<targets, ti, all_builds_successful, build_result, container,
                   cleanupCalls, cleanupFailed>>
    /\ UNCHANGED <<flakeVars, cmdVars, execVars, hostVars, progVars,
                   concVars, lockVars, cliVars>>

\* lib.rs:107-112 and generate_flake.rs:12-46: render, normalize, write
\* flake.nix.new
BwnGenerateFlake ==
    /\ pc = "generate"
    /\ \E ok \in BOOLEAN, f \in FailPoints(1) :
          /\ LogCallsMade(<< <<"Generating flake.nix file">> >>, f)
          /\ (f # 0 => ok)
          /\ IF f # 0
             THEN Fatal("log") /\ UNCHANGED <<tempFile, generated_content>>
             ELSE IF ~ok
             THEN Fatal("generate_flake") /\ UNCHANGED <<tempFile, generated_content>>
             ELSE /\ generated_content' = Normalize(rendered)
                  /\ tempFile' = Normalize(rendered)
                  /\ pc' = "check_flake"
                  /\ UNCHANGED <<result, failedAt>>
    /\ UNCHANGED <<targets, ti, all_builds_successful, build_result, container,
                   cleanupCalls, cleanupFailed>>
    /\ UNCHANGED <<flakeFile, rendered, flakeBefore, flakeWrites>>
    /\ UNCHANGED <<cmdVars, execVars, hostVars, progVars,
                   concVars, lockVars, cliVars>>

\* lib.rs:114-125: check_flake_changes only prints; then flake.nix.new is
\* renamed over flake.nix, or removed
BwnCheckFlake ==
    /\ pc = "check_flake"
    /\ \E f \in FailPoints(1) :
          /\ IF FlakeNeedsUpdate(flakeFile, generated_content)
             THEN /\ flakeFile' = tempFile
                  /\ tempFile' = Absent
                  /\ flakeWrites' = flakeWrites + 1
                  /\ LogCallsMade(<< <<"Updated flake.nix">> >>, f)
             ELSE /\ tempFile' = Absent
                  /\ UNCHANGED <<flakeFile, flakeWrites>>
                  /\ LogCallsMade(<< <<"Using existing flake.nix">> >>, f)
          /\ IF f # 0
             THEN Fatal("log")
             ELSE pc' = "setup" /\ UNCHANGED <<result, failedAt>>
    /\ UNCHANGED <<targets, ti, all_builds_successful, build_result, container,
                   cleanupCalls, cleanupFailed>>
    /\ UNCHANGED <<rendered, generated_content, flakeBefore>>
    /\ UNCHANGED <<cmdVars, execVars, hostVars, progVars,
                   concVars, lockVars, cliVars>>

NextDesc == BwnInit \/ BwnGenerateFlake \/ BwnCheckFlake

\* ---------------------------------------------------------------- commands
\* The results execute_command can return for a command.  TRUE is Ok(output);
\* FALSE is Err: a non-zero exit status or a failed Docker call.  The check
\* (execute_build.rs:73) exits with status 0 whatever the link's state, so
\* its Err is a failed Docker call.  Both copies read ./result-<t>/ and exit
\* non-zero when the link is not live.
Outcomes(kind, t) ==
    IF kind \in {"copy", "fallback"} /\ link[t] # "live" THEN {FALSE} ELSE BOOLEAN

\* One execute_command call with the log calls around it: the calls `pre`,
\* then the command, then the calls `post`.  f is the failure point of the
\* log calls; when one of `pre` fails the command is not run.
RunCommand(kind, i, t, pre, ok, live, post, f) ==
    LET ran == f = 0 \/ f > Len(pre) IN
    /\ LogCallsMade(pre \o post, f)
    /\ cmds' = IF ran THEN Append(cmds, [kind |-> kind, i |-> i, ok |-> ok])
               ELSE cmds
    /\ link' = IF ran /\ ok /\ kind = "build"
               THEN [link EXCEPT ![t] = IF live THEN "live" ELSE "missing"]
               ELSE IF ran /\ ok /\ kind = "rm"
               THEN [link EXCEPT ![t] = "removed"]
               ELSE link
    /\ outDirs' = IF ran /\ ok /\ kind = "mkdir" THEN outDirs \cup {t} ELSE outDirs
    /\ nix_build_cmd' = IF ran /\ kind = "build" THEN CommandText(kind, t)
                        ELSE nix_build_cmd
    /\ staged' = IF ran /\ ok /\ kind \in {"copy", "fallback"}
                 THEN staged \cup {t} ELSE staged

\* ---------------------------------------------------------------- session
\* setup_container handing the id back without start_container
ContainerNotStarted(out) ==
    CASE out = "image_err" -> "none"
      [] out = "create_err" -> "none"
      [] out = "start_err" -> "created"
      [] out = "ok" -> "created"

\* container_utils.rs:48-92: the container after setup_container, by the
\* call that failed; create_container (line 85), then start_container (86)
ContainerAfterSetup(out) ==
    CASE out = "image_err" -> "none"
      [] out = "create_err" -> "none"
      [] out = "start_err" -> "created"
      [] out = "ok" -> "running"

\* lib.rs:127-130 and container_utils.rs:48-92: create_image,
\* create_container, start_container; each may fail and is propagated
BwnSetupContainer ==
    /\ pc = "setup"
    /\ \E out \in {"image_err", "create_err", "start_err", "ok"} :
       \E f \in FailPoints(IF out = "ok" THEN 2 ELSE 1) :
          /\ (f = 1 => out = "image_err")
          /\ LogCallsMade(IF out = "ok"
                          THEN << <<"Setting up Docker container">>,
                                 <<"Created container with ID">> >>
                          ELSE << <<"Setting up Docker container">> >>, f)
          /\ container' = IF f = 1 THEN "none" ELSE ContainerAfterSetup(out)
          /\ IF f # 0 THEN Fatal("log")
             ELSE IF out # "ok" THEN Fatal("setup_container")
             ELSE pc' = "git" /\ UNCHANGED <<result, failedAt>>
    /\ UNCHANGED <<targets, ti, all_builds_successful, build_result,
                   cleanupCalls, cleanupFailed>>
    /\ UNCHANGED <<flakeVars, cmdVars, execVars, hostVars, progVars,
                   concVars, lockVars, cliVars>>

\* lib.rs:132-145: a failure of the git command is logged as a warning
BwnGitConfig ==
    /\ pc = "git"
    /\ \E ok \in BOOLEAN :
       LET pre == << <<"Configuring git safe directory in container">> >>
           post == IF ok THEN <<CommandMessage(CommandText("git", ""), "out")>>
                   ELSE << <<"Warning: Failed to set git safe.directory">> >>
       IN \E f \in FailPoints(Len(pre \o post)) :
          /\ (f = 1 => ok)
          /\ RunCommand("git", 0, "", pre, ok, TRUE, post, f)
          /\ IF f # 0 THEN Fatal("log")
             ELSE pc' = "cargo_lock" /\ UNCHANGED <<result, failedAt>>
    /\ UNCHANGED <<targets, ti, all_builds_successful, build_result, container,
                   cleanupCalls, cleanupFailed>>
    /\ UNCHANGED <<flakeVars, execVars, hostVars, progVars,
                   concVars, lockVars, cliVars>>

\* lib.rs:147-156: cargo generate-lockfile when Cargo.lock is missing; its
\* error is propagated
BwnCargoLock ==
    /\ pc = "cargo_lock"
    /\ \E cargo_lock_exists \in BOOLEAN, ok \in BOOLEAN :
          IF cargo_lock_exists
          THEN /\ ok
               /\ pc' = "flake_lock"
               /\ UNCHANGED <<result, failedAt, cmdVars, logVars>>
          ELSE LET pre == << <<"Cargo.lock not found, generating it...">> >>
                   post == IF ok
                           THEN <<CommandMessage(CommandText("cargo_lock", ""), "out")>>
                           ELSE <<>>
               IN \E f \in FailPoints(Len(pre \o post)) :
                  /\ (f = 1 => ok)
                  /\ RunCommand("cargo_lock", 0, "", pre, ok, TRUE, post, f)
                  /\ IF f # 0 THEN Fatal("log")
                     ELSE IF ~ok THEN Fatal("cargo_lock")
                     ELSE pc' = "flake_lock" /\ UNCHANGED <<result, failedAt>>
    /\ UNCHANGED <<targets, ti, all_builds_successful, build_result, container,
                   cleanupCalls, cleanupFailed>>
    /\ UNCHANGED <<flakeVars, execVars, hostVars, progVars,
                   concVars, lockVars, cliVars>>

\* lib.rs:158-182: generate_flake_lock, its error is propagated; then the
\* "Starting build for targets" entry
BwnFlakeLock ==
    /\ pc = "flake_lock"
    /\ \E ok \in BOOLEAN :
       LET pre == << <<"Generating flake.lock file">> >>
           post == IF ok
                   THEN <<CommandMessage(CommandText("flake_lock", ""), "out"),
                          <<"Starting build for targets", targets>> >>
                   ELSE <<>>
       IN \E f \in FailPoints(Len(pre \o post)) :
          /\ (f = 1 => ok)
          /\ RunCommand("flake_lock", 0, "", pre, ok, TRUE, post, f)
          /\ IF f # 0 THEN Fatal("log")
             ELSE IF ~ok THEN Fatal("flake_lock")
             ELSE pc' = "enb_root" /\ UNCHANGED <<result, failedAt>>
    /\ UNCHANGED <<targets, ti, all_builds_successful, build_result, container,
                   cleanupCalls, cleanupFailed>>
    /\ UNCHANGED <<flakeVars, execVars, hostVars, progVars,
                   concVars, lockVars, cliVars>>

\* lib.rs:185-187: cleanup_container, its error is propagated
BwnCleanup ==
    /\ pc = "cleanup"
    /\ \E ok \in BOOLEAN, f \in FailPoints(1) :
          /\ (f = 1 => ok)
          /\ LogCallsMade(<< <<"Cleaning up container">> >>, f)
          /\ IF f # 0
             THEN /\ Fatal("log")
                  /\ UNCHANGED <<container, cleanupCalls, cleanupFailed>>
             ELSE /\ cleanupCalls' = cleanupCalls + 1
                  /\ cleanupFailed' = ~ok
                  /\ container' = IF ok THEN "removed" ELSE container
                  /\ IF ok THEN pc' = "complete" /\ UNCHANGED <<result, failedAt>>
                     ELSE Fatal("cleanup")
    /\ UNCHANGED <<targets, ti, all_builds_successful, build_result>>
    /\ UNCHANGED <<flakeVars, cmdVars, execVars, hostVars, progVars,
                   concVars, lockVars, cliVars>>

\* lib.rs:189-195: log_build_completion, flush, return build_result
BwnComplete ==
    /\ pc = "complete"
    /\ \E f \in FailPoints(1), flushed \in BOOLEAN :
          /\ (f = 1 => flushed)
          /\ log_buffer' = BufferAfter(log_buffer, <<CompletionMessage(build_result = "Ok")>>, f)
          /\ logCalls' = logCalls \o <<LogEntry(CompletionMessage(build_result = "Ok"))>>
          /\ log_file' = IF f # 0 THEN log_file
                         ELSE IF ~flushed
                         THEN FileAfter(log_file, <<CompletionMessage(build_result = "Ok")>>, 0)
                         ELSE FileAfterFlush(
                                FileAfter(log_file, <<CompletionMessage(build_result = "Ok")>>, 0),
                                log_buffer')
          /\ logFailed' = (logFailed \/ f # 0 \/ ~flushed)
          /\ flushes' = IF f = 0 /\ flushed THEN flushes + 1 ELSE flushes
          /\ pc' = "done"
          /\ result' = IF f # 0 \/ ~flushed THEN "Err" ELSE build_result
          /\ failedAt' = IF f # 0 THEN "log" ELSE IF ~flushed THEN "flush" ELSE failedAt
    /\ UNCHANGED <<targets, ti, all_builds_successful, build_result, container,
                   cleanupCalls, cleanupFailed>>
    /\ UNCHANGED <<flakeVars, cmdVars, execVars, hostVars, progVars,
                   concVars, lockVars, cliVars>>

\* ---------------------------------------------------------------- targets
\* AfterCommand with the plain copy run after every archive copy
AfterCommandAlwaysFallback(kind, ok) ==
    CASE kind = "build" -> IF ok THEN "enb_check" ELSE "enb_diag"
      [] kind = "diag" -> "next"
      [] kind = "check" -> IF ok THEN "enb_mkdir" ELSE "next"
      [] kind = "mkdir" -> IF ok THEN "enb_copy" ELSE "next"
      [] kind = "copy" -> "enb_fallback"
      [] kind = "fallback" -> "enb_rm"
      [] kind = "rm" -> "next"

\* AfterCommand without the diagnostic command after a failed build
AfterCommandNoDiag(kind, ok) ==
    CASE kind = "build" -> IF ok THEN "enb_check" ELSE "next"
      [] kind = "diag" -> "next"
      [] kind = "check" -> IF ok THEN "enb_mkdir" ELSE "next"
      [] kind = "mkdir" -> IF ok THEN "enb_copy" ELSE "next"
      [] kind = "copy" -> IF ok THEN "enb_rm" ELSE "enb_fallback"
      [] kind = "fallback" -> "enb_rm"
      [] kind = "rm" -> "next"

\* AfterCommand with the per-target mkdir issued before the output-link check
AfterCommandSwapped(kind, ok) ==
    CASE kind = "build" -> IF ok THEN "enb_mkdir" ELSE "enb_diag"
      [] kind = "diag" -> "next"
      [] kind = "mkdir" -> IF ok THEN "enb_check" ELSE "next"
      [] kind = "check" -> IF ok THEN "enb_copy" ELSE "next"
      [] kind = "copy" -> IF ok THEN "enb_rm" ELSE "enb_fallback"
      [] kind = "fallback" -> "enb_rm"
      [] kind = "rm" -> "next"

\* execute_build.rs:36-139, where the loop goes after a command of the
\* current target returned: the next command, or "next" for the next target
AfterCommand(kind, ok) ==
    CASE kind = "build" -> IF ok THEN "enb_check" ELSE "enb_diag"
      [] kind = "diag" -> "next"
      [] kind = "check" -> IF ok THEN "enb_mkdir" ELSE "next"
      [] kind = "mkdir" -> IF ok THEN "enb_copy" ELSE "next"
      [] kind = "copy" -> IF ok THEN "enb_rm" ELSE "enb_fallback"
      [] kind = "fallback" -> "enb_rm"
      [] kind = "rm" -> "next"

\* NextTarget with `break` in place of `continue` after a failed command
NextTargetBreak(i, ok) == IF ok THEN i + 1 ELSE Len(targets) + 1

\* execute_build.rs:36, :68, :87 and :139: `continue` and the end of the loop
\* body both move the for loop to the next target
NextTarget(i, ok) == i + 1

\* MarksFailed without the assignment of execute_build.rs:67
MarksFailedCheckOnly(kind, ok) == kind = "check" /\ ~ok

\* MarksFailed with a failed last-resort copy failing the target
MarksFailedOnCopy(kind, ok) ==
    \/ kind = "diag"
    \/ kind = "check" /\ ~ok
    \/ kind = "fallback" /\ ~ok

\* execute_build.rs:67 and :137, the commands after which
\* all_builds_successful is set to false
MarksFailed(kind, ok) ==
    \/ kind = "diag"
    \/ kind = "check" /\ ~ok

\* the log calls made before a command of the current target
PreMessages(kind, t) ==
    IF kind = "build" THEN << <<"Building for target", parse_target(t)[1]>> >>
    ELSE <<>>

\* the log calls made after a command of the current target returned
PostMessages(kind, t, ok) ==
    LET done == CommandMessage(CommandText(kind, t),
                               CommandOutput(kind, link[t] = "live"))
        success == <<"Build successful for target", t>>
    IN CASE kind = "build" ->
              IF ok THEN <<CommandMessage(CommandText(kind, t), "out")>>
              ELSE << <<"Build failed for target", t>> >>
         [] kind = "diag" ->
              IF ok THEN << <<"Flake content for debugging:">>, <<"flake_content">> >>
              ELSE <<>>
         [] kind = "check" ->
              IF ok THEN <<done>>
              ELSE << <<"Build produced no output for target", t>> >>
         [] kind = "mkdir" ->
              IF ok THEN <<done>> ELSE << <<"Failed to create target directory">> >>
         [] kind = "copy" ->
              IF ok THEN <<done>> ELSE << <<"Failed to copy build artifacts">> >>
         [] kind = "fallback" ->
              IF ok THEN <<done>> ELSE <<>>
         [] kind = "rm" ->
              IF ok THEN <<done, success>>
              ELSE << <<"Failed to clean up symlink">>, success>>

\* execute_nix_build returns
EnbReturn(res) ==
    /\ build_result' = res
    /\ pc' = "cleanup"

\* one command of the current target, with its log calls; a failed log call
\* makes execute_nix_build return the error
EnbStep(kind) ==
    \E ok \in Outcomes(kind, Target), live \in BOOLEAN :
    LET pre == PreMessages(kind, Target)
        post == PostMessages(kind, Target, ok)
        nxt == AfterCommand(kind, ok)
    IN \E f \in FailPoints(Len(pre \o post)) :
       /\ (kind # "build" \/ ~ok => live)
       /\ (f \in 1..Len(pre) => ok /\ live)
       /\ RunCommand(kind, ti, Target, pre, ok, live, post, f)
       /\ IF f # 0
          THEN /\ EnbReturn("Err")
               /\ UNCHANGED <<ti, all_builds_successful>>
          ELSE /\ all_builds_successful' =
                     IF MarksFailed(kind, ok) THEN FALSE ELSE all_builds_successful
               /\ UNCHANGED build_result
               /\ IF nxt = "next"
                  THEN /\ ti' = NextTarget(ti, ok)
                       /\ pc' = IF ti' > Len(targets) THEN "enb_finish"
                                ELSE "enb_build"
                  ELSE /\ ti' = ti
                       /\ pc' = nxt
       /\ UNCHANGED <<targets, result, failedAt, container, cleanupCalls,
                      cleanupFailed>>
       /\ UNCHANGED <<flakeVars, execVars, hostVars, progVars,
                   concVars, lockVars, cliVars>>

\* execute_build.rs:27-34: the output root; the command's error is propagated
EnbRoot ==
    /\ pc = "enb_root"
    /\ \E ok \in BOOLEAN :
       LET post == IF ok
                   THEN <<CommandMessage(CommandText("root", ""), "out"),
                          <<"Starting build process for target(s)", Len(targets)>> >>
                   ELSE <<>>
       IN \E f \in FailPoints(Len(post)) :
          /\ RunCommand("root", 0, "", <<>>, ok, TRUE, post, f)
          /\ IF f # 0 \/ ~ok
             THEN EnbReturn("Err") /\ UNCHANGED ti
             ELSE /\ ti' = 1
                  /\ pc' = IF Len(targets) = 0 THEN "enb_finish" ELSE "enb_build"
                  /\ UNCHANGED build_result
    /\ all_builds_successful' = TRUE
    /\ UNCHANGED <<targets, result, failedAt, container, cleanupCalls,
                   cleanupFailed>>
    /\ UNCHANGED <<flakeVars, execVars, hostVars, progVars,
                   concVars, lockVars, cliVars>>

\* execute_build.rs:36-70: "Building for target", the primary nix build
EnbBuild == pc = "enb_build" /\ EnbStep("build")

\* execute_build.rs:61-68: after a failed build, fetch the flake's content
EnbDiag == pc = "enb_diag" /\ EnbStep("diag")

\* execute_build.rs:72-76 and :134-138: the output-link check
EnbCheck == pc = "enb_check" /\ EnbStep("check")

\* execute_build.rs:78-89: the per-target directory
EnbMkdir == pc = "enb_mkdir" /\ EnbStep("mkdir")

\* execute_build.rs:91-105: the tar copy
EnbCopy == pc = "enb_copy" /\ EnbStep("copy")

\* execute_build.rs:106-116: the cp fallback
EnbFallback == pc = "enb_fallback" /\ EnbStep("fallback")

\* execute_build.rs:120-133: the link removal, then "Build successful"
EnbRmLink == pc = "enb_rm" /\ EnbStep("rm")

\* execute_build.rs:141-149
EnbFinish ==
    /\ pc = "enb_finish"
    /\ \E f \in FailPoints(1) :
          /\ LogCallsMade(IF all_builds_successful
                          THEN << <<"All builds completed successfully!">> >>
                          ELSE << <<"Some builds failed or produced no output">> >>, f)
          /\ EnbReturn(IF f = 0 /\ all_builds_successful THEN "Ok" ELSE "Err")
    /\ UNCHANGED <<targets, ti, all_builds_successful, result, failedAt,
                   container, cleanupCalls, cleanupFailed>>
    /\ UNCHANGED <<flakeVars, cmdVars, execVars, hostVars, progVars,
                   concVars, lockVars, cliVars>>

\* execute_build.rs:36-50 alone: the loop parses each target and composes
\* its primary build command
EnbCompose ==
    /\ pc = "enb_compose"
    /\ ti < Len(targets)
    /\ ti' = ti + 1
    /\ nix_build_cmd' = CommandText("build", targets[ti + 1])
    /\ UNCHANGED <<pc, targets, all_builds_successful, build_result, result,
                   failedAt, container, cleanupCalls, cleanupFailed>>
    /\ UNCHANGED <<cmds, link, outDirs, staged>>
    /\ UNCHANGED <<flakeVars, logVars, execVars, hostVars, progVars,
                   concVars, lockVars, cliVars>>

NextTargets == EnbCompose

NextBuild ==
    \/ EnbRoot \/ EnbBuild \/ EnbDiag \/ EnbCheck \/ EnbMkdir \/ EnbCopy
    \/ EnbFallback \/ EnbRmLink \/ EnbFinish

\* ================================================================ executor
\* What the attached output stream of an exec yields: Ok(StdOut), Ok(StdErr),
\* Ok of another LogOutput variant, or Err (a failed read).
Noise == "copying path /nix/store/x"
Keyword == "building y"
ErrorLine == "error: z"
Plain == "plain text"
BadUtf8 == "invalid utf-8"
FailedLine == "builder failed"
\* a chunk of two lines, the first with an error marker
TwoLines == "error: z / at line 3"

StreamItems ==
    {[tag |-> "StdOut", msg |-> m] :
        m \in {Noise, Keyword, Plain, BadUtf8, FailedLine}}
    \cup {[tag |-> "StdErr", msg |-> ErrorLine],
          [tag |-> "StdErr", msg |-> TwoLines],
          [tag |-> "Console", msg |-> Plain],
          [tag |-> "Err", msg |-> ""]}

\* exec_inspect.exit_code: Option<i64>, <<>> for None and <<c>> for Some(c)
ExitCodes == {<<>>, <<0>>, <<1>>}

\* the command strings execute_command is called with in SpecExec
ExecCommands == {"nix build", "rm -f ./result"}

\* format!("{}", exit_code): the decimal digits of the exit code
Display(n) == CASE n = 0 -> "0" [] n = 1 -> "1" [] n = 2 -> "2"

\* execute_command.rs:144, the anyhow! message of a non-zero exit
CommandFailedError(code) == <<"Command failed with exit code ", Display(code)>>
\* execute_command.rs:151
StartError == <<"Failed to start command execution">>
\* errors propagated by `?`: bollard (25, 26, 114) and from_utf8 (43)
DockerError == <<"docker error">>
Utf8Error == <<"invalid utf-8 sequence">>

\* str::lines: the lines of a chunk
Lines(chunk) ==
    IF chunk = TwoLines THEN <<"error: z", "at line 3">> ELSE <<chunk>>

\* message_str.contains("error:"), execute_command.rs:48
ContainsErrorColon(chunk) == chunk \in {ErrorLine, TwoLines}

\* line.contains("error") || line.contains("failed"), execute_command.rs:132
ContainsErrorOrFailed(line) == line \in {ErrorLine, "error: z", FailedLine}

\* Iterator::take
Take(seq, n) == SubSeq(seq, 1, IF Len(seq) < n THEN Len(seq) ELSE n)

\* the lines of a sequence of chunks, in order
RECURSIVE AllLines(_)
AllLines(chunks) ==
    IF chunks = <<>> THEN <<>>
    ELSE Lines(Head(chunks)) \o AllLines(Tail(chunks))

\* the lines of `lines` that contain "error" or "failed", in order
RECURSIVE MarkedLines(_)
MarkedLines(lines) ==
    IF lines = <<>> THEN <<>>
    ELSE (IF ContainsErrorOrFailed(Head(lines)) THEN <<Head(lines)>> ELSE <<>>)
         \o MarkedLines(Tail(lines))

\* nothing printed as diagnostic context
NoDiagnostics == [lines |-> <<>>, more |-> 0]

\* execute_command.rs:120-142: what is printed as diagnostic context, line
\* by line: each of the first five error chunks as it is and the number of
\* further error chunks (0: no such line), or else the first five marked
\* lines of the output
PrintedDiagnostics(errors, logs) ==
    IF errors # <<>>
    THEN [lines |-> AllLines(Take(errors, 5)),
          more |-> IF Len(errors) > 5 THEN Len(errors) - 5 ELSE 0]
    ELSE [lines |-> Take(MarkedLines(AllLines(logs)), 5), more |-> 0]

\* execute_command returns Ok (err = <<>>) or Err(err)
ExecReturn(res, err) ==
    /\ exResult' = res
    /\ exError' = err
    /\ pc' = "exec_done"

\* execute_command.rs:10-30: create_exec and start_exec; their errors are
\* propagated, a detached start is an error
ExecStart ==
    /\ pc = "exec_start"
    /\ \E started \in {"Attached", "Detached", "api_err"} :
          IF started = "Attached"
          THEN pc' = "exec_stream" /\ UNCHANGED <<exResult, exError>>
          ELSE ExecReturn("Err", IF started = "Detached" THEN StartError
                                 ELSE DockerError)
    /\ UNCHANGED <<exStream, exPos, full_output, exit_code, cmd,
                   error_messages, diagnostics>>
    /\ UNCHANGED <<targets, ti, all_builds_successful, build_result, result,
                   failedAt, container, cleanupCalls, cleanupFailed>>
    /\ UNCHANGED <<flakeVars, cmdVars, logVars, hostVars, progVars,
                   concVars, lockVars, cliVars>>

\* execute_command.rs:39-109, one turn of `while let Some(Ok(output_chunk))`
ExecChunk ==
    /\ pc = "exec_stream"
    /\ exPos < Len(exStream)
    /\ exStream[exPos + 1].tag # "Err"
    /\ exPos' = exPos + 1
    /\ LET item == exStream[exPos + 1] IN
       IF item.tag \in {"StdOut", "StdErr"}
       THEN IF item.msg = BadUtf8
            THEN /\ ExecReturn("Err", Utf8Error)
                 /\ UNCHANGED <<full_output, error_messages>>
            ELSE /\ full_output' = Append(full_output, item.msg)
                 /\ error_messages' = IF ContainsErrorColon(item.msg)
                                      THEN Append(error_messages, item.msg)
                                      ELSE error_messages
                 /\ UNCHANGED <<pc, exResult, exError>>
       ELSE UNCHANGED <<pc, exResult, exError, full_output, error_messages>>
    /\ UNCHANGED <<exStream, exit_code, cmd, diagnostics>>
    /\ UNCHANGED <<targets, ti, all_builds_successful, build_result, result,
                   failedAt, container, cleanupCalls, cleanupFailed>>
    /\ UNCHANGED <<flakeVars, cmdVars, logVars, hostVars, progVars,
                   concVars, lockVars, cliVars>>

\* execute_command.rs:39: the loop ends when the stream yields None or an Err
ExecStreamEnd ==
    /\ pc = "exec_stream"
    /\ IF exPos = Len(exStream) THEN TRUE ELSE exStream[exPos + 1].tag = "Err"
    /\ pc' = "exec_inspect"
    /\ UNCHANGED <<exStream, exPos, full_output, exit_code, exResult, cmd,
                   exError, error_messages, diagnostics>>
    /\ UNCHANGED <<targets, ti, all_builds_successful, build_result, result,
                   failedAt, container, cleanupCalls, cleanupFailed>>
    /\ UNCHANGED <<flakeVars, cmdVars, logVars, hostVars, progVars,
                   concVars, lockVars, cliVars>>

\* execute_command.rs:114-154: inspect_exec; Err for a non-zero exit code,
\* Ok(full_output) for exit code 0 and for no exit code
ExecInspect ==
    /\ pc = "exec_inspect"
    /\ \E inspected \in BOOLEAN :
          IF ~inspected
          THEN ExecReturn("Err", DockerError) /\ UNCHANGED diagnostics
          ELSE IF exit_code \notin {<<>>, <<0>>}
               THEN /\ diagnostics' =
                          PrintedDiagnostics(error_messages, full_output)
                    /\ ExecReturn("Err", CommandFailedError(exit_code[1]))
               ELSE ExecReturn("Ok", <<>>) /\ UNCHANGED diagnostics
    /\ UNCHANGED <<exStream, exPos, full_output, exit_code, cmd,
                   error_messages>>
    /\ UNCHANGED <<targets, ti, all_builds_successful, build_result, result,
                   failedAt, container, cleanupCalls, cleanupFailed>>
    /\ UNCHANGED <<flakeVars, cmdVars, logVars, hostVars, progVars,
                   concVars, lockVars, cliVars>>

NextExec == ExecStart \/ ExecChunk \/ ExecStreamEnd \/ ExecInspect

\* ================================================================ container names
\* Several build sessions run setup_container against one Docker host.  The
\* clock counts ticks of half a second.
TicksPerSecond == 2

\* Duration::as_secs: the whole seconds of a duration, the rest is dropped
as_secs(t) == t \div TicksPerSecond

\* container_utils.rs:78-79
ContainerNameOf(t) == <<"repx-", as_secs(t)>>

Sessions == 1..MaxSessions

\* time passes
Tick ==
    /\ pc = "names"
    /\ now < MaxClock
    /\ now' = now + 1
    /\ UNCHANGED <<hostNames, session>>
    /\ UNCHANGED <<targets, ti, all_builds_successful, build_result, result,
                   failedAt, container, cleanupCalls, cleanupFailed, pc>>
    /\ UNCHANGED <<flakeVars, cmdVars, logVars, execVars, progVars,
                   concVars, lockVars, cliVars>>

\* container_utils.rs:78-83: the session reads the clock and names its
\* container
SetupName(s) ==
    /\ pc = "names"
    /\ session[s].at = "start"
    /\ session' = [session EXCEPT ![s] = [at |-> "named",
                                          name |-> ContainerNameOf(now)]]
    /\ UNCHANGED <<now, hostNames>>
    /\ UNCHANGED <<targets, ti, all_builds_successful, build_result, result,
                   failedAt, container, cleanupCalls, cleanupFailed, pc>>
    /\ UNCHANGED <<flakeVars, cmdVars, logVars, execVars, progVars,
                   concVars, lockVars, cliVars>>

\* container_utils.rs:85: create_container; the Docker engine refuses a name
\* that a container of the host already has, and `?` propagates the error
SetupCreate(s) ==
    /\ pc = "names"
    /\ session[s].at = "named"
    /\ IF session[s].name \in hostNames
       THEN /\ session' = [session EXCEPT ![s].at = "conflict"]
            /\ UNCHANGED hostNames
       ELSE /\ session' = [session EXCEPT ![s].at = "created"]
            /\ hostNames' = hostNames \cup {session[s].name}
    /\ UNCHANGED now
    /\ UNCHANGED <<targets, ti, all_builds_successful, build_result, result,
                   failedAt, container, cleanupCalls, cleanupFailed, pc>>
    /\ UNCHANGED <<flakeVars, cmdVars, logVars, execVars, progVars,
                   concVars, lockVars, cliVars>>

\* container_utils.rs:95-103: the session removes its container
CleanupRemove(s) ==
    /\ pc = "names"
    /\ session[s].at = "created"
    /\ session' = [session EXCEPT ![s].at = "removed"]
    /\ hostNames' = hostNames \ {session[s].name}
    /\ UNCHANGED now
    /\ UNCHANGED <<targets, ti, all_builds_successful, build_result, result,
                   failedAt, container, cleanupCalls, cleanupFailed, pc>>
    /\ UNCHANGED <<flakeVars, cmdVars, logVars, execVars, progVars,
                   concVars, lockVars, cliVars>>

NextNames ==
    \/ Tick
    \/ \E s \in Sessions : SetupName(s) \/ SetupCreate(s) \/ CleanupRemove(s)

\* ================================================================ status line
\* The display side of the loop of execute_command: each chunk arrives at
\* some instant of the clock and may redraw the status line.
\* the length of a tick in milliseconds
TickMs == 1000 \div TicksPerSecond

\* execute_command.rs:34, in milliseconds
update_interval == 500

\* execute_command.rs:58, the noise chunks between two displayed counts
NoiseBurst == 10

\* a second progress message, and a chunk that holds only white space
Keyword2 == "fetching w"
Blank == " "

ProgressChunks == {Noise, Keyword, Keyword2, Plain, Blank}

\* execute_command.rs:53, message_str.contains("copying path")
IsNoise(chunk) == chunk = Noise

\* execute_command.rs:70-75
is_important(chunk) == chunk \in {Keyword, Keyword2, ErrorLine}

\* execute_command.rs:79-81, the last line of the chunk, trimmed
progress_line(chunk) == IF chunk = Blank THEN "" ELSE chunk

\* Instant::elapsed of last_update, in milliseconds
Elapsed == (now - last_update) * TickMs

\* IntervalPassed without the throttle
IntervalAlways(elapsed) == TRUE

\* execute_command.rs:57 and :77, `last_update.elapsed() >= update_interval`
IntervalPassed(elapsed) == elapsed >= update_interval

\* time passes while the command runs
ProgressTick ==
    /\ pc = "progress"
    /\ now < MaxProgressClock
    /\ now' = now + 1
    /\ UNCHANGED <<hostNames, session>>
    /\ UNCHANGED <<progVars, concVars, lockVars, cliVars>>
    /\ UNCHANGED <<driverVars, flakeVars, cmdVars, logVars, execVars>>

\* execute_command.rs:39-105, one chunk of stdout or stderr: a noise chunk
\* is counted and may redraw the counter, another chunk may redraw the
\* progress text
ProgressChunk ==
    /\ pc = "progress"
    /\ exPos < MaxProgressChunks
    /\ exPos' = exPos + 1
    /\ \E chunk \in ProgressChunks :
          /\ output_chunk' = chunk
          /\ IF IsNoise(chunk)
             THEN /\ important_message_count' = important_message_count + 1
                  /\ UNCHANGED last_progress
                  /\ IF /\ IntervalPassed(Elapsed)
                        /\ important_message_count' - last_displayed_count
                              >= NoiseBurst
                     THEN /\ redraws' = Append(redraws,
                                [at |-> now, kind |-> "count",
                                 text |-> "copied paths",
                                 count |-> important_message_count',
                                 since |-> last_displayed_count])
                          /\ last_update' = now
                          /\ last_displayed_count' = important_message_count'
                     ELSE UNCHANGED <<redraws, last_update, last_displayed_count>>
             ELSE /\ UNCHANGED <<important_message_count, last_displayed_count>>
                  /\ IF /\ is_important(chunk)
                        /\ IntervalPassed(Elapsed)
                        /\ progress_line(chunk) # ""
                        /\ progress_line(chunk) # last_progress
                     THEN /\ last_progress' = progress_line(chunk)
                          /\ redraws' = Append(redraws,
                                [at |-> now, kind |-> "progress",
                                 text |-> progress_line(chunk),
                                 count |-> important_message_count,
                                 since |-> last_displayed_count])
                          /\ last_update' = now
                     ELSE UNCHANGED <<last_progress, redraws, last_update>>
    /\ UNCHANGED <<exStream, full_output, exit_code, exResult, cmd, exError,
                   error_messages, diagnostics>>
    /\ UNCHANGED <<driverVars, flakeVars, cmdVars, logVars, hostVars,
                   concVars, lockVars, cliVars>>

NextProgress == ProgressTick \/ ProgressChunk

\* ================================================================ specifications
Texts == SeqsUpTo(Chars, MaxTextLen)

\* the flake.nix a session of Spec may find, and what its template renders to
SessionFlakes == {Absent, <<"a", LF>>, <<"a", CR, LF>>, <<"b", LF>>}
SessionRendered == {<<"a", CR, LF>>}

DriverIdle ==
    /\ ti = 0
    /\ all_builds_successful = TRUE
    /\ build_result = "none"
    /\ result = "none"
    /\ failedAt = "none"
    /\ cleanupCalls = 0
    /\ cleanupFailed = FALSE

FlakeIdle ==
    /\ tempFile = Absent
    /\ generated_content = Absent
    /\ flakeBefore = flakeFile
    /\ flakeWrites = 0

CmdIdle ==
    /\ cmds = <<>>
    /\ link = [t \in TargetIds |-> "none"]
    /\ outDirs = {}
    /\ staged = {}
    /\ nix_build_cmd = <<>>

LogIdle ==
    /\ log_buffer = <<>>
    /\ logCalls = <<>>
    /\ logFailed = FALSE
    /\ flushes = 0

ExecIdle ==
    /\ exStream = <<>>
    /\ exPos = 0
    /\ full_output = <<>>
    /\ exit_code = <<>>
    /\ exResult = "none"
    /\ cmd = ""
    /\ exError = <<>>
    /\ error_messages = <<>>
    /\ diagnostics = NoDiagnostics

HostIdle ==
    /\ now = 0
    /\ hostNames = {}
    /\ session = <<>>

\* no task is inside log
ConcIdle == logging = <<>>

\* generate_lock.rs:29: the package details the sed patterns of the update
\* command look for in flake.nix
DefaultPkg == [pname |-> "project", version |-> "0.1.0"]

\* the shell variables the command list names; an unset one expands to ""
ShellVars == {"NIX_CONFIG", "PACKAGE_NAME", "PACKAGE_VERSION"}
ContainerEnv == [v \in ShellVars |-> ""]

\* config.rs:56-68, RepxConfig::default(); an Option is <<>> for None and
\* <<v>> for Some(v)
default_config ==
    [project |-> ".", image |-> "nixos/nix:latest", targets |-> <<>>,
     extra |-> <<>>, rust_channel |-> "stable", rust_version |-> "latest",
     nixpkgs_url |-> "github:NixOS/nixpkgs/nixos-unstable"]

\* main.rs:10-35, a command line that supplies nothing
NoArgs ==
    [cmd |-> "Build", project |-> <<>>, image |-> <<>>, targets |-> <<>>,
     list_targets |-> FALSE, extra |-> <<>>, rust_channel |-> <<>>,
     rust_version |-> <<>>, nixpkgs_url |-> <<>>, force |-> FALSE]

\* main is not running
CliIdle ==
    /\ args = NoArgs
    /\ base_config = default_config
    /\ final_config = <<>>
    /\ merges = 0
    /\ split_targets = <<>>
    /\ main_result = <<>>
    /\ target_path = <<>>
    /\ repx_toml = Absent
    /\ init_runs = <<>>

\* generate_flake_lock is not running
LockIdle ==
    /\ gfl_i = 0
    /\ gfl_ran = <<>>
    /\ gfl_result = "none"
    /\ shell_env = ContainerEnv
    /\ flake_pkg = DefaultPkg
    /\ crate = DefaultPkg
    /\ flake_lock = "absent"
    /\ flake_lock_mode = "rw-r--r--"

\* execute_command.rs:31-37
ProgressIdle ==
    /\ output_chunk = ""
    /\ last_update = 0
    /\ important_message_count = 0
    /\ last_displayed_count = 0
    /\ last_progress = ""
    /\ redraws = <<>>

\* build_with_nix is called
Init ==
    /\ pc = "start"
    /\ targets \in SeqsUpTo(TargetIds, MaxSessionTargets)
    /\ container = "none"
    /\ flakeFile \in SessionFlakes
    /\ rendered \in SessionRendered
    /\ log_file = NoFile
    /\ DriverIdle /\ FlakeIdle /\ CmdIdle /\ LogIdle /\ ExecIdle
    /\ HostIdle /\ ProgressIdle /\ ConcIdle /\ LockIdle /\ CliIdle

Next ==
    \/ BwnInit \/ BwnGenerateFlake \/ BwnCheckFlake \/ BwnSetupContainer
    \/ BwnGitConfig \/ BwnCargoLock \/ BwnFlakeLock
    \/ EnbRoot \/ EnbBuild \/ EnbDiag \/ EnbCheck \/ EnbMkdir \/ EnbCopy
    \/ EnbFallback \/ EnbRmLink \/ EnbFinish
    \/ BwnCleanup \/ BwnComplete

Spec == Init /\ [][Next]_vars

\* build_with_nix is called with any short flake.nix on disk
InitDesc ==
    /\ pc = "start"
    /\ targets \in SeqsUpTo(TargetIds, 1)
    /\ container = "none"
    /\ flakeFile \in {Absent} \cup Texts
    /\ rendered \in Texts
    /\ log_file = NoFile
    /\ DriverIdle /\ FlakeIdle /\ CmdIdle /\ LogIdle /\ ExecIdle
    /\ HostIdle /\ ProgressIdle /\ ConcIdle /\ LockIdle /\ CliIdle

SpecDesc == InitDesc /\ [][NextDesc]_vars

\* execute_nix_build is called on a running container with a fresh logger
InitBuild ==
    /\ pc = "enb_root"
    /\ targets \in SeqsUpTo(TargetIds, MaxTargets)
    /\ container = "running"
    /\ flakeFile = <<"a", LF>>
    /\ rendered = <<"a", LF>>
    /\ log_file = <<Header>>
    /\ DriverIdle /\ FlakeIdle /\ CmdIdle /\ LogIdle /\ ExecIdle
    /\ HostIdle /\ ProgressIdle /\ ConcIdle /\ LockIdle /\ CliIdle

SpecBuild == InitBuild /\ [][NextBuild]_vars

\* the for loop of execute_nix_build is entered with any list of identifiers
InitTargets ==
    /\ pc = "enb_compose"
    /\ targets \in SeqsUpTo(Identifiers, MaxTargets)
    /\ container = "running"
    /\ flakeFile = <<"a", LF>>
    /\ rendered = <<"a", LF>>
    /\ log_file = <<Header>>
    /\ DriverIdle /\ FlakeIdle /\ CmdIdle /\ LogIdle /\ ExecIdle
    /\ HostIdle /\ ProgressIdle /\ ConcIdle /\ LockIdle /\ CliIdle

SpecTargets == InitTargets /\ [][NextTargets]_vars

\* build sessions are about to set their containers up on an empty host
InitNames ==
    /\ pc = "names"
    /\ targets = <<>>
    /\ container = "none"
    /\ flakeFile = Absent
    /\ rendered = <<>>
    /\ log_file = NoFile
    /\ DriverIdle /\ FlakeIdle /\ CmdIdle /\ LogIdle /\ ExecIdle
    /\ now = 0
    /\ hostNames = {}
    /\ session = [s \in Sessions |-> [at |-> "start", name |-> <<>>]]
    /\ ProgressIdle /\ ConcIdle /\ LockIdle /\ CliIdle

SpecNames == InitNames /\ [][NextNames]_vars

\* execute_command has started the exec and enters its loop
InitProgress ==
    /\ pc = "progress"
    /\ targets = <<>>
    /\ container = "running"
    /\ flakeFile = Absent
    /\ rendered = <<>>
    /\ log_file = NoFile
    /\ DriverIdle /\ FlakeIdle /\ CmdIdle /\ LogIdle /\ ExecIdle
    /\ HostIdle /\ ProgressIdle /\ ConcIdle /\ LockIdle /\ CliIdle

SpecProgress == InitProgress /\ [][NextProgress]_vars

\* a BuildLogger was created and handed to the tasks
InitConc ==
    /\ pc = "tasks"
    /\ targets = <<>>
    /\ container = "none"
    /\ flakeFile = Absent
    /\ rendered = <<>>
    /\ log_file = <<Header>>
    /\ DriverIdle /\ FlakeIdle /\ CmdIdle /\ LogIdle /\ ExecIdle
    /\ HostIdle /\ ProgressIdle /\ LockIdle /\ CliIdle
    /\ logging = [c \in Callers |-> [at |-> "idle", n |-> 0, entry |-> <<>>]]

SpecConc == InitConc /\ [][NextConc]_vars

\* a BuildLogger was created
InitLog ==
    /\ pc = "logger"
    /\ targets = <<>>
    /\ container = "none"
    /\ flakeFile = Absent
    /\ rendered = <<>>
    /\ log_file = <<Header>>
    /\ DriverIdle /\ FlakeIdle /\ CmdIdle /\ LogIdle /\ ExecIdle
    /\ HostIdle /\ ProgressIdle /\ ConcIdle /\ LockIdle /\ CliIdle

SpecLog == InitLog /\ [][NextLog]_vars

\* execute_command is called for a command with this output and exit code
InitExec ==
    /\ pc = "exec_start"
    /\ targets = <<>>
    /\ container = "running"
    /\ flakeFile = Absent
    /\ rendered = <<>>
    /\ log_file = NoFile
    /\ DriverIdle /\ FlakeIdle /\ CmdIdle /\ LogIdle
    /\ HostIdle /\ ProgressIdle /\ ConcIdle /\ LockIdle /\ CliIdle
    /\ exStream \in SeqsUpTo(StreamItems, MaxChunks)
    /\ exPos = 0
    /\ full_output = <<>>
    /\ exit_code \in ExitCodes
    /\ exResult = "none"
    /\ cmd \in ExecCommands
    /\ exError = <<>>
    /\ error_messages = <<>>
    /\ diagnostics = NoDiagnostics

SpecExec == InitExec /\ [][NextExec]_vars

\* ================================================================ properties
\* build_with_nix returned
Returned == pc = "done"

\* setup_container returned Ok in this session
SetupSucceeded == container \in {"running", "removed"}

\* execute_nix_build returned
EnbReturned == build_result # "none"

\* the commands of kind `kind` run for the target at index i
Ran(kind, i) == {k \in DOMAIN cmds : cmds[k].kind = kind /\ cmds[k].i = i}
RanOk(kind, i) == {k \in Ran(kind, i) : cmds[k].ok}
RanErr(kind, i) == {k \in Ran(kind, i) : ~cmds[k].ok}

\* the positions of an entry in a log file
Occurrences(file, entry) == {k \in DOMAIN file : file[k] = entry}

CompletionRecord(success) == LogEntry(CompletionMessage(success))
SuccessRecord(t) == LogEntry(<<"Build successful for target", t>>)
CheckRecord(t, output) ==
    LogEntry(CommandMessage(CommandText("check", t), output))

\* C1: whenever setup_container succeeded, cleanup_container has been invoked
\* exactly once when build_with_nix returns, on every exit path.
C1_TeardownExactlyOnce ==
    Returned /\ SetupSucceeded => cleanupCalls = 1

\* C2: when cleanup_container fails, build_with_nix still returns the result
\* of execute_nix_build and the log holds the build-completion record.
C2_TeardownFailureKeepsResult ==
    Returned /\ cleanupFailed =>
        /\ result = build_result
        /\ Occurrences(log_file, CompletionRecord(build_result = "Ok")) # {}

\* the fatal steps C3 names; a failed output-root creation makes
\* execute_nix_build return Err, which build_with_nix returns at its end
FatalStepFailed ==
    \/ failedAt \in {"generate_flake", "setup_container", "cargo_lock", "flake_lock"}
    \/ failedAt = "none" /\ RanErr("root", 0) # {}

\* C3: whenever build_with_nix returns an error because a fatal step failed
\* after the logger was created, the session log ends with a completion
\* record of status FAILURE.
C3_FatalErrorLogsFailure ==
    Returned /\ result = "Err" /\ FatalStepFailed =>
        /\ Occurrences(log_file, CompletionRecord(FALSE)) # {}

\* C4: when execute_nix_build returns after the output root was created and
\* no log call failed, the primary build command has been run for every
\* requested target, whichever commands of earlier targets failed.
C4_EveryTargetAttempted ==
    EnbReturned /\ ~logFailed /\ RanOk("root", 0) # {} =>
        \A i \in 1..Len(targets) : Ran("build", i) # {}

\* a two-target run in which the first target's build, check, mkdir, copy or
\* link removal failed and the second target was built
C4_Witness ==
    /\ EnbReturned /\ ~logFailed
    /\ Len(targets) = 2
    /\ RanErr("mkdir", 1) # {}
    /\ Ran("build", 2) # {}

\* C5: when execute_nix_build returns, a failed primary build of any target
\* makes the result an error; the staging of every target whose build
\* succeeded went as far as that target's own commands allowed (check, then
\* its directory, then the copy), and a copy that succeeded left the target's
\* artifacts under the output root; if every command succeeded the result
\* is Ok.
C5_PartialFailureIsolation ==
    EnbReturned =>
        /\ (\E i \in 1..Len(targets) : RanErr("build", i) # {}) => build_result = "Err"
        /\ ~logFailed =>
              \A i \in 1..Len(targets) :
                 /\ RanOk("build", i) # {} => Ran("check", i) # {}
                 /\ RanOk("check", i) # {} => Ran("mkdir", i) # {}
                 /\ RanOk("mkdir", i) # {} =>
                       Ran("copy", i) # {} /\ targets[i] \in outDirs
                 /\ RanOk("copy", i) # {} => targets[i] \in staged
        /\ ~logFailed /\ (\A k \in DOMAIN cmds : cmds[k].ok) /\ cmds # <<>> =>
              build_result = "Ok"

\* targets [A, B]: A's build failed, B's artifacts were staged, the result
\* is an error
C5_Witness ==
    /\ EnbReturned /\ ~logFailed
    /\ Len(targets) = 2 /\ targets[1] # targets[2]
    /\ RanErr("build", 1) # {}
    /\ RanOk("copy", 2) # {}
    /\ targets[2] \in staged
    /\ build_result = "Err"

\* C6: a target whose build exited zero but whose output link is missing or
\* dangling (the check printed "false") is failed: it is not logged as
\* successful and execute_nix_build returns an error.
C6_DanglingLinkFailsTarget ==
    EnbReturned =>
        \A t \in TargetIds :
           Occurrences(log_file, CheckRecord(t, "false")) # {} =>
              /\ build_result = "Err"
              /\ (Cardinality({i \in DOMAIN targets : targets[i] = t}) = 1 =>
                     Occurrences(log_file, SuccessRecord(t)) = {})

\* C7: when execute_nix_build returns and no log call failed, every target
\* whose copy was started (its build, check and directory creation
\* succeeded) is logged as successful exactly once, whatever the tar copy, the
\* cp fallback and the link removal returned; and the result is Ok whenever
\* the output root, every build and every check succeeded.
C7_StagingFailureKeepsSuccess ==
    EnbReturned /\ ~logFailed =>
        /\ \A t \in TargetIds :
              Cardinality(Occurrences(log_file, SuccessRecord(t)))
                 = Cardinality({k \in DOMAIN cmds :
                                   cmds[k].kind = "copy" /\ targets[cmds[k].i] = t})
        /\ (/\ RanOk("root", 0) # {}
            /\ \A k \in DOMAIN cmds :
                  cmds[k].kind \in {"build", "check"} => cmds[k].ok)
           => build_result = "Ok"

\* a target whose tar copy, cp fallback and link removal all failed, in a run
\* that returned Ok
C7_Witness ==
    /\ EnbReturned /\ ~logFailed
    /\ \E i \in 1..Len(targets) :
          /\ RanErr("copy", i) # {}
          /\ RanErr("fallback", i) # {}
          /\ RanErr("rm", i) # {}
          /\ Occurrences(log_file, SuccessRecord(targets[i])) # {}
    /\ build_result = "Ok"

\* C8: after one or more flush calls the log file holds, after the header,
\* every logged entry exactly once and in call order.
C8_FlushedLogHasEachEntryOnce ==
    flushes >= 1 /\ ~logFailed => log_file = <<Header>> \o logCalls

UsingExistingRecord == LogEntry(<<"Using existing flake.nix">>)
UpdatedRecord == LogEntry(<<"Updated flake.nix">>)

\* the descriptor step of build_with_nix has run to its end
DescriptorStepDone ==
    generated_content # Absent /\ pc # "check_flake"

\* C9: after the descriptor step, if the generated text equals the flake.nix
\* the session found after line-ending normalization, flake.nix is what it
\* was and has not been replaced, flake.nix.new is gone and 'Using existing'
\* was logged; otherwise flake.nix is the generated text, replaced once, and
\* 'Updated' was logged.
C9_NoOpOnMatch ==
    DescriptorStepDone =>
        /\ tempFile = Absent
        /\ IF flakeBefore # Absent
              /\ Normalize(flakeBefore) = Normalize(generated_content)
           THEN /\ flakeFile = flakeBefore
                /\ flakeWrites = 0
                /\ Occurrences(log_buffer, UsingExistingRecord) # {}
                /\ Occurrences(log_buffer, UpdatedRecord) = {}
                /\ ~logFailed => Occurrences(log_file, UsingExistingRecord) # {}
           ELSE /\ flakeFile = generated_content
                /\ flakeWrites = 1
                /\ Occurrences(log_buffer, UpdatedRecord) # {}
                /\ Occurrences(log_buffer, UsingExistingRecord) = {}
                /\ ~logFailed => Occurrences(log_file, UpdatedRecord) # {}

\* an existing flake.nix with other line endings than the generated text was
\* kept
C9_Witness ==
    /\ DescriptorStepDone /\ ~logFailed
    /\ flakeBefore # Absent
    /\ flakeBefore # generated_content
    /\ flakeFile = flakeBefore
    /\ flakeWrites = 0

\* the stdout and stderr chunks of a stream, in arrival order
RECURSIVE Produced(_)
Produced(stream) ==
    IF stream = <<>> THEN <<>>
    ELSE (IF Head(stream).tag \in {"StdOut", "StdErr"}
          THEN <<Head(stream).msg>> ELSE <<>>) \o Produced(Tail(stream))

\* C10: for a command that exits with status 0, the string execute_command
\* returns is the concatenation, in arrival order, of every stdout and
\* stderr chunk of the command, whatever happens on the stream.
C10_OutputIsAllChunks ==
    exResult = "Ok" /\ exit_code = <<0>> => full_output = Produced(exStream)

\* the strings an error message is made of
Carries(err, text) == \E k \in DOMAIN err : err[k] = text

\* C11: for a command that exits with a non-zero status, execute_command
\* returns an error that carries both the exact exit code and the original
\* command string.
C11_ErrorCarriesCodeAndCommand ==
    pc = "exec_done" /\ exit_code \notin {<<>>, <<0>>}
                     /\ exError = CommandFailedError(exit_code[1])
        => /\ exResult = "Err"
           /\ Carries(exError, Display(exit_code[1]))
           /\ Carries(exError, cmd)

\* the stream yields a read error
ReadError(stream) == \E k \in DOMAIN stream : stream[k].tag = "Err"

\* C12: every call of execute_command ends in Ok or in an error, and Ok is
\* returned only with the complete output of a command observed to have
\* exited with status 0: never when the exit status is non-zero or not
\* available, never when the output stream ended with a read error.
C12_OkOnlyForObservedSuccess ==
    pc = "exec_done"
        => /\ exResult \in {"Ok", "Err"}
           /\ exResult = "Ok" => /\ exit_code = <<0>>
                                 /\ ~ReadError(exStream)
                                 /\ full_output = Produced(exStream)

\* the place of a command in the body of the for loop of execute_nix_build;
\* the diagnostic command takes the place of the check after a failed build
CommandRank(kind) ==
    CASE kind = "root" -> 0
      [] kind = "build" -> 1
      [] kind \in {"diag", "check"} -> 2
      [] kind = "mkdir" -> 3
      [] kind = "copy" -> 4
      [] kind = "fallback" -> 5
      [] kind = "rm" -> 6

\* C13: commands are executed one after the other: every command of target
\* i is issued before any command of target i+1, targets are taken in the
\* order of the list, and within a target the order is primary build,
\* output-link check, per-target mkdir, archive copy, fallback copy, link
\* removal, each at most once and the primary build first.
C13_CommandsInOrder ==
    /\ \A j, k \in DOMAIN cmds :
          j < k => \/ cmds[j].i < cmds[k].i
                   \/ /\ cmds[j].i = cmds[k].i
                      /\ CommandRank(cmds[j].kind) < CommandRank(cmds[k].kind)
    /\ \A k \in DOMAIN cmds :
          /\ cmds[k].i \in 0..Len(targets)
          /\ cmds[k].i = 0 <=> cmds[k].kind = "root"
          /\ (k > 1 /\ cmds[k - 1].i # cmds[k].i) =>
                 /\ cmds[k].kind = "build"
                 /\ cmds[k].i = cmds[k - 1].i + 1

\* two targets were built, the first with every command of the loop body
C13_Witness ==
    /\ EnbReturned
    /\ Len(targets) = 2
    /\ \E k \in DOMAIN cmds :
          /\ k + 6 \in DOMAIN cmds
          /\ [j \in 0..6 |-> cmds[k + j].kind] =
                [j \in 0..6 |-> CASE j = 0 -> "build" [] j = 1 -> "check"
                                   [] j = 2 -> "mkdir" [] j = 3 -> "copy"
                                   [] j = 4 -> "fallback" [] j = 5 -> "rm"
                                   [] j = 6 -> "build"]
          /\ cmds[k].i = 1 /\ cmds[k + 6].i = 2

\* C14: when execute_nix_build returns (no log call having failed), the
\* removal command of ./result-<target> has been executed for every target
\* whose primary build command succeeded, and no output link is left behind.
C14_LinkRemovedAfterBuild ==
    EnbReturned /\ ~logFailed
        => \A i \in DOMAIN targets :
              RanOk("build", i) # {}
                  => /\ Ran("rm", i) # {}
                     /\ link[targets[i]] # "live"

\* the kinds of command that are run through execute_command
\* (generate_flake_lock creates its execs itself)
ViaExecuteCommand ==
    {"git", "cargo_lock", "root", "build", "diag", "check", "mkdir", "copy",
     "fallback", "rm"}

\* C15: a non-zero exit of a command run through execute_command never
\* aborts the session: when nothing else failed (no log call, not the lock
\* generation), build_with_nix has attempted every requested target and has
\* torn the container down by the time it returns.
C15_CommandFailureDoesNotAbort ==
    (/\ Returned
     /\ ~logFailed
     /\ \A k \in DOMAIN cmds :
           cmds[k].kind \notin ViaExecuteCommand => cmds[k].ok
     /\ \E k \in DOMAIN cmds :
           cmds[k].kind \in ViaExecuteCommand /\ ~cmds[k].ok)
        => /\ \A i \in DOMAIN targets : Ran("build", i) # {}
           /\ cleanupCalls = 1

\* C16: when setup_container fails, build_with_nix returns the error and no
\* command was executed; a container that was created before the failure
\* has been removed, and otherwise none was created.
C16_SetupFailureLeavesNoContainer ==
    Returned /\ failedAt = "setup_container"
        => /\ result = "Err"
           /\ cmds = <<>>
           /\ container \in {"none", "removed"}

\* C17: when generate_flake_file fails, build_with_nix returns an error, no
\* container was created, no command was executed and flake.nix is what it
\* was; and whenever a container exists or a command was executed, the
\* descriptor step has run to its end.
C17_GenerateFailureStopsSession ==
    /\ failedAt = "generate_flake"
           => /\ Returned /\ result = "Err"
              /\ container = "none"
              /\ cmds = <<>>
              /\ flakeFile = flakeBefore /\ flakeWrites = 0
    /\ container # "none" \/ cmds # <<>>
           => DescriptorStepDone /\ tempFile = Absent

\* generate_flake_file failed in a project that has a flake.nix
C17_Witness ==
    Returned /\ failedAt = "generate_flake" /\ flakeBefore # Absent

\* ---------------------------------------------------------------- paths
\* A path is the sequence of its components.  The project directory on the
\* host is <<"project">>; "/app" and "/flake-dir" in the container are
\* <<"app">> and <<"flake-dir">>.
\* lib.rs:83 and :108, the canonical flake.nix of the metadata directory
metadata_dir == <<"project", ".repx">>
flake_path == metadata_dir \o <<"flake.nix">>

\* container_utils.rs:63-67, the bind mounts of the container
Binds ==
    {[host |-> <<"project">>, ctr |-> <<"app">>],
     [host |-> metadata_dir, ctr |-> <<"flake-dir">>]}

\* execute_command.rs:22, the directory a command runs in
working_dir == <<"app">>

\* execute_build.rs:48 and :62: the descriptor file a command reads, as a
\* path in the container; both name .repro-build relative to working_dir
ReadsFlakeAt(kind) ==
    CASE kind = "build" -> working_dir \o <<".repro-build", "flake.nix">>
      [] kind = "diag" -> working_dir \o <<".repro-build", "flake.nix">>

IsPrefix(p, q) == Len(p) <= Len(q) /\ SubSeq(q, 1, Len(p)) = p

\* the host file a container path denotes under the bind mounts
HostPathOf(p) ==
    LET over == {b \in Binds : IsPrefix(b.ctr, p)}
        b == CHOOSE x \in over : \A y \in over : Len(y.ctr) <= Len(x.ctr)
    IN b.host \o SubSeq(p, Len(b.ctr) + 1, Len(p))

\* C19: the primary build command of every target, and the diagnostic
\* command run after a failed build, read the descriptor this session
\* generated: the path they reference in the container denotes the
\* canonical flake.nix of the bind-mounted metadata directory.
C19_CommandsReadGeneratedFlake ==
    \A k \in DOMAIN cmds :
        cmds[k].kind \in {"build", "diag"}
            => HostPathOf(ReadsFlakeAt(cmds[k].kind)) = flake_path

\* C20: parse_target never rejects or rewrites an identifier: the flake
\* target and the link name of the primary build command are the input
\* string; the command holds '--option sandbox false' exactly when the target
\* is x86_64-pc-windows-msvc; an identifier without an arm of its own gets the
\* default flags.
C20_TargetPassesThrough ==
    pc = "enb_compose" /\ ti > 0
        => LET t == targets[ti] IN
           /\ parse_target(t)[1] = t
           /\ nix_build_cmd[4] = t /\ nix_build_cmd[6] = t
           /\ Carries(nix_build_cmd, "--option sandbox false")
                 <=> t = "x86_64-pc-windows-msvc"
           /\ t \notin ParseArms => parse_target(t) = <<t, FALSE, FALSE>>

\* the build command of an identifier without an arm was composed after
\* that of x86_64-pc-windows-msvc
C20_Witness ==
    /\ pc = "enb_compose" /\ ti = 2
    /\ targets[1] = "x86_64-pc-windows-msvc"
    /\ targets[2] \notin ParseArms
    /\ nix_build_cmd[4] = targets[2]

\* C21: once the descriptor step has completed, the canonical flake.nix
\* contains no CR and is byte-identical to the text generated in this
\* session, whatever flake.nix held before.
C21_CanonicalFlakeIsGenerated ==
    DescriptorStepDone
        => /\ flakeFile = generated_content
           /\ \A k \in DOMAIN flakeFile : flakeFile[k] # CR

\* C22: any two build sessions that each create a container give their
\* containers distinct names, and no session's container creation fails
\* because of the name another session chose.
C22_ContainerNamesDistinct ==
    \A s \in DOMAIN session :
        /\ session[s].at # "conflict"
        /\ \A r \in DOMAIN session :
              /\ r # s
              /\ session[s].at \in {"created", "removed"}
              /\ session[r].at \in {"created", "removed"}
              => session[s].name # session[r].name

\* the terminal records of the targets named t in the session log
FailureRecords(t) ==
    Occurrences(log_buffer, LogEntry(<<"Build failed for target", t>>))
    \cup Occurrences(log_buffer,
                     LogEntry(<<"Build produced no output for target", t>>))
TerminalRecords(t) == Occurrences(log_buffer, SuccessRecord(t)) \cup FailureRecords(t)

\* C23: when execute_nix_build returns (the output root created, no log call
\* failing), every requested target has exactly one terminal record in the
\* log ('Build successful', 'Build failed' or 'Build produced no output'),
\* the result is an error if and only if some target has a failure record,
\* and every target's primary build command was executed exactly once.
C23_OneTerminalOutcomePerTarget ==
    EnbReturned /\ ~logFailed /\ RanOk("root", 0) # {}
        => /\ \A i \in DOMAIN targets :
                 /\ Cardinality(TerminalRecords(targets[i])) =
                       Cardinality({j \in DOMAIN targets : targets[j] = targets[i]})
                 /\ Cardinality(Ran("build", i)) = 1
           /\ build_result = "Err"
                 <=> \E i \in DOMAIN targets : FailureRecords(targets[i]) # {}

\* the commands of kind `kind` that returned Err, Ok
FailedCommands(kind) == {k \in DOMAIN cmds : cmds[k].kind = kind /\ ~cmds[k].ok}
PassedCommands(kind) == {k \in DOMAIN cmds : cmds[k].kind = kind /\ cmds[k].ok}

\* the log entries with this first field
EntriesTitled(title) == {k \in DOMAIN log_buffer : log_buffer[k][2][1] = title}

\* C24: after a failed primary build the next command executed is the fetch
\* of the descriptor, and none of check, mkdir, copy, fallback or link
\* removal is executed for that target; by the time the loop turns to the
\* next target (no log call failing) the failure record and, for every
\* successful fetch, the fetched contents are in the log, and the run is
\* marked failed whether or not the fetch succeeded.
C24_FailedBuildIsDiagnosed ==
    /\ \A k \in FailedCommands("build") :
          /\ k < Len(cmds) => cmds[k + 1] \in
                 {[kind |-> "diag", i |-> cmds[k].i, ok |-> b] : b \in BOOLEAN}
          /\ \A kind \in {"check", "mkdir", "copy", "fallback", "rm"} :
                 Ran(kind, cmds[k].i) = {}
    /\ pc \in {"enb_build", "enb_finish"} /\ ~logFailed
          /\ FailedCommands("build") # {}
          => /\ ~all_builds_successful
             /\ Cardinality(EntriesTitled("Build failed for target")) =
                   Cardinality(FailedCommands("build"))
             /\ Cardinality(FailedCommands("build")) =
                   Cardinality(FailedCommands("diag") \cup PassedCommands("diag"))
             /\ Cardinality(EntriesTitled("Flake content for debugging:")) =
                   Cardinality(PassedCommands("diag"))
             /\ Cardinality(EntriesTitled("flake_content")) =
                   Cardinality(PassedCommands("diag"))

\* the first target's build failed and its fetch succeeded, the second
\* target's build failed and its fetch failed
C24_Witness ==
    /\ pc = "enb_finish" /\ ~logFailed
    /\ RanErr("build", 1) # {} /\ RanOk("diag", 1) # {}
    /\ RanErr("build", 2) # {} /\ RanErr("diag", 2) # {}

\* C25: for each target the plain copy (cp -r) is executed if and only if
\* the archive copy (tar) of that target was executed and failed, each at
\* most once, and neither is executed unless the per-target output directory
\* was created successfully.  (A log call that fails after the archive copy
\* makes execute_nix_build return before the plain copy.)
C25_FallbackIffArchiveCopyFailed ==
    \A i \in DOMAIN targets :
        /\ Cardinality(Ran("copy", i)) <= 1
        /\ Cardinality(Ran("fallback", i)) <= 1
        /\ Ran("fallback", i) # {} => RanErr("copy", i) # {}
        /\ RanErr("copy", i) # {} /\ ~logFailed /\ ~(pc = "enb_fallback" /\ ti = i)
              => Ran("fallback", i) # {}
        /\ Ran("copy", i) # {} \/ Ran("fallback", i) # {}
              => RanOk("mkdir", i) # {}

\* the archive copy of the first target failed and the plain copy was run;
\* the archive copy of the second target succeeded
C25_Witness ==
    /\ EnbReturned /\ ~logFailed
    /\ RanErr("copy", 1) # {} /\ Ran("fallback", 1) # {}
    /\ RanOk("copy", 2) # {} /\ Ran("fallback", 2) = {}

\* the chunks execute_command took from the stream
Received == Produced(SubSeq(exStream, 1, exPos))

\* the chunks of `chunks` that contain "error:", in order
RECURSIVE ErrorChunks(_)
ErrorChunks(chunks) ==
    IF chunks = <<>> THEN <<>>
    ELSE (IF ContainsErrorColon(Head(chunks)) THEN <<Head(chunks)>> ELSE <<>>)
         \o ErrorChunks(Tail(chunks))

\* C26: on a non-zero exit execute_command returns an error and surfaces at
\* most five diagnostic lines: the first five chunks containing 'error:' when
\* there are any, with a count of the remaining ones, otherwise the first
\* five output lines containing 'error' or 'failed'.
C26_AtMostFiveDiagnostics ==
    pc = "exec_done" /\ exError = CommandFailedError(1)
        => /\ exResult = "Err"
           /\ Len(diagnostics.lines) <= 5
           /\ IF ErrorChunks(Received) # <<>>
              THEN /\ diagnostics.lines = AllLines(Take(ErrorChunks(Received), 5))
                   /\ diagnostics.more =
                         (IF Len(ErrorChunks(Received)) > 5
                          THEN Len(ErrorChunks(Received)) - 5 ELSE 0)
              ELSE diagnostics.lines = Take(MarkedLines(AllLines(Received)), 5)

\* the redraws are at least update_interval apart, the first one from the
\* start of the loop; a counter redraw shows at least NoiseBurst more noise
\* chunks than the count displayed before; noise is never the progress text
RedrawsThrottled ==
    /\ \A k \in DOMAIN redraws :
          /\ redraws[k].at * TickMs >=
                (IF k = 1 THEN 0 ELSE redraws[k - 1].at * TickMs) + 500
          /\ redraws[k].kind = "count"
                => redraws[k].count - redraws[k].since >= 10
          /\ redraws[k].kind = "progress" => ~IsNoise(redraws[k].text)
    /\ ~IsNoise(last_progress)

\* a noise chunk adds one to the noise counter and leaves the progress text
NoiseIsCounted ==
    exPos' # exPos /\ IsNoise(output_chunk')
        => /\ important_message_count' = important_message_count + 1
           /\ last_progress' = last_progress
           /\ \/ redraws' = redraws
              \/ /\ Len(redraws') = Len(redraws) + 1
                 /\ redraws'[Len(redraws')].kind = "count"

\* C27: within one execute_command call the status line is redrawn at most
\* once per 500 ms: consecutive redraws of either kind are at least 500 ms
\* apart and the first is at least 500 ms after the start; a chunk
\* containing 'copying path' adds one to the noise counter, never becomes
\* the progress text, and redraws the counter only when at least 10 noise
\* chunks were counted since the last displayed count.
C27_RedrawThrottled == []RedrawsThrottled /\ [][NoiseIsCounted]_vars

\* the counter was redrawn after ten noise chunks, and the progress text
\* was redrawn one interval later
C27_Witness ==
    /\ Len(redraws) = 2
    /\ redraws[1].kind = "count" /\ redraws[1].count = 10
    /\ redraws[2].kind = "progress"
    /\ (redraws[2].at - redraws[1].at) * TickMs = 500

\* the position of an entry in a sequence of distinct entries
PositionIn(seq, entry) == CHOOSE k \in DOMAIN seq : seq[k] = entry

\* C28: when several log calls on one BuildLogger are in progress at the
\* same time, the entries are in the file in the relative order in which
\* they were appended to the buffer, each as one block.
C28_FileOrderIsBufferOrder ==
    pc = "tasks"
        => \A j, k \in 2..Len(log_file) :
              /\ Occurrences(log_buffer, log_file[k]) # {}
              /\ j < k => PositionIn(log_buffer, log_file[j])
                             < PositionIn(log_buffer, log_file[k])

\* C29: in sequential use of one BuildLogger, as long as no flush has
\* written, after every completed log operation the file is the header
\* followed by exactly the content of the buffer; in particular the entry
\* of a log call whose file append failed is in neither.
C29_FileIsHeaderThenBuffer ==
    pc = "logger" /\ flushes = 0 => log_file = <<Header>> \o log_buffer

\* The completion records the session log file holds, by status.
CompletionRecords(success) == Occurrences(log_file, CompletionRecord(success))

\* C30: once build_with_nix has returned, a completion record in the session
\* log says SUCCESS exactly when the returned result is Ok, and the log holds
\* at most one completion record.
C30_CompletionAgreesWithResult ==
    Returned =>
       /\ (CompletionRecords(TRUE) # {} => result = "Ok")
       /\ (CompletionRecords(FALSE) # {} => result = "Err")
       /\ Cardinality(CompletionRecords(TRUE) \cup CompletionRecords(FALSE)) <= 1

\* C31: a session creates at most one container; every command of the
\* session is issued while that container is running, after it was started
\* and before cleanup_container was invoked, so none is issued to a
\* container whose removal was requested.
C31_CommandsInTheOneContainer ==
    [][/\ (cmds' # cmds => /\ container = "running"
                           /\ container' = "running"
                           /\ cleanupCalls = 0)
       /\ (container' # container /\ container' \in {"created", "running"}
              => container = "none")]_vars

\* a session that ran the git, Cargo.lock, flake.lock and target commands
\* and then removed its container
C31_Witness ==
    /\ Returned
    /\ container = "removed"
    /\ \A kind \in {"git", "cargo_lock", "flake_lock", "build", "copy"} :
          \E k \in DOMAIN cmds : cmds[k].kind = kind

\* ==================================================== generate_flake_lock
\* generate_lock.rs:13-37, the command list, by what each command does
commands ==
    <<"export_nix_config", "echo_pwd", "echo_ls", "echo_extracting",
      "package_name", "package_version", "echo_details", "update_flake",
      "echo_generating", "flake_lock", "verify_lock">>

\* generate_lock.rs:45, the directory every command of the list runs in
lock_working_dir == <<"flake-dir">>

\* generate_lock.rs:23-24, the directory the metadata is extracted in
metadata_source_dir == <<"src">>

\* the Cargo.toml contents a project may have
Crates ==
    {DefaultPkg, [pname |-> "mycrate", version |-> "1.2.3"]}

\* a path of the container that lies in the project: under the mount of the
\* project directory
InProject(p) ==
    \E b \in Binds : b.host = <<"project">> /\ IsPrefix(b.ctr, p)

\* generate_lock.rs:23-24: `$(cd /src && ... cargo metadata ... || echo
\* <default>)`, the extracted field, or the default when the extraction fails
Extracted(field) ==
    IF InProject(metadata_source_dir) THEN crate[field] ELSE DefaultPkg[field]

\* generate_lock.rs:40-49: every command is run by an exec of its own,
\* `sh -c <cmd>`: its shell starts from the environment of the container,
\* whatever the shell of the previous command held
EnvAtStart(previous) == ContainerEnv

\* the variables of the shell of command c when it exits, started with env
EnvAfter(c, env) ==
    CASE c = "export_nix_config" ->
            [env EXCEPT !["NIX_CONFIG"] = "experimental-features"]
      [] c = "package_name" ->
            [env EXCEPT !["PACKAGE_NAME"] = Extracted("pname")]
      [] c = "package_version" ->
            [env EXCEPT !["PACKAGE_VERSION"] = Extracted("version")]
      [] OTHER -> env

\* generate_lock.rs:29: the update command rewrites the package details
\* of flake.nix when both variables are non-empty in its shell
FlakePkgAfter(c, env, pkg) ==
    IF c = "update_flake" /\ env["PACKAGE_NAME"] # ""
                          /\ env["PACKAGE_VERSION"] # ""
    THEN [pname |-> IF pkg.pname = DefaultPkg.pname
                    THEN env["PACKAGE_NAME"] ELSE pkg.pname,
          version |-> IF pkg.version = DefaultPkg.version
                      THEN env["PACKAGE_VERSION"] ELSE pkg.version]
    ELSE pkg

\* what inspect_exec may report for command c: an exit code, or none when
\* the status is not available; generate_lock.rs:36, the last command exits
\* 0 when flake.lock is a file of its directory and 1 otherwise
ExitStatuses(c) ==
    IF c = "verify_lock"
    THEN {IF HostPathOf(lock_working_dir \o <<"flake.lock">>)
                = metadata_dir \o <<"flake.lock">> /\ flake_lock = "present"
          THEN <<0>> ELSE <<1>>, <<>>}
    ELSE {<<0>>, <<1>>, <<>>}

\* generate_flake_lock returns
GflReturn(res) ==
    /\ gfl_result' = res
    /\ pc' = "gfl_done"

\* generate_lock.rs:40-74, one turn of `for cmd in commands`: create_exec,
\* start_exec, the output loop, inspect_exec; each error is propagated, a
\* non-zero exit code returns an error, no exit code goes on
GflCommand ==
    /\ pc = "gfl"
    /\ gfl_i < Len(commands)
    /\ LET c == commands[gfl_i + 1] IN
       \E api \in {"ok", "create_exec", "start_exec", "from_utf8",
                    "inspect_exec"},
          exit_status \in ExitStatuses(c) :
          LET started == api \notin {"create_exec", "start_exec"}
              env == EnvAtStart(shell_env)
              exited == started /\ exit_status = <<0>>
          IN /\ gfl_i' = gfl_i + 1
             /\ gfl_ran' = IF started
                           THEN Append(gfl_ran, [c |-> c, exit |-> exit_status])
                           ELSE gfl_ran
             /\ shell_env' = IF started THEN EnvAfter(c, env) ELSE shell_env
             /\ flake_pkg' = IF exited THEN FlakePkgAfter(c, env, flake_pkg)
                             ELSE flake_pkg
             /\ flake_lock' = IF exited /\ c = "flake_lock" THEN "present"
                              ELSE flake_lock
             /\ flake_lock_mode' =
                   IF exited /\ c = "flake_lock" /\ flake_lock = "absent"
                   THEN "rw-r--r--"
                   ELSE IF exited /\ c = "verify_lock" THEN "rw-rw-rw-"
                   ELSE flake_lock_mode
             /\ IF api # "ok" THEN GflReturn("Err")
                ELSE IF exit_status \notin {<<>>, <<0>>} THEN GflReturn("Err")
                ELSE UNCHANGED <<pc, gfl_result>>
    /\ UNCHANGED crate
    /\ UNCHANGED <<targets, ti, all_builds_successful, build_result, result,
                   failedAt, container, cleanupCalls, cleanupFailed>>
    /\ UNCHANGED <<flakeVars, cmdVars, logVars, execVars, hostVars, progVars,
                   concVars, cliVars>>

\* generate_lock.rs:76: the list is exhausted
GflFinish ==
    /\ pc = "gfl"
    /\ gfl_i = Len(commands)
    /\ GflReturn("Ok")
    /\ UNCHANGED <<gfl_i, gfl_ran, shell_env, flake_pkg, crate, flake_lock,
                   flake_lock_mode>>
    /\ UNCHANGED <<targets, ti, all_builds_successful, build_result, result,
                   failedAt, container, cleanupCalls, cleanupFailed>>
    /\ UNCHANGED <<flakeVars, cmdVars, logVars, execVars, hostVars, progVars,
                   concVars, cliVars>>

NextLock == GflCommand \/ GflFinish

\* generate_flake_lock is called in a running container (lib.rs:169); the
\* descriptor holds the default package details, flake.lock may exist
InitLock ==
    /\ pc = "gfl"
    /\ targets = <<>>
    /\ container = "running"
    /\ flakeFile = Absent
    /\ rendered = <<>>
    /\ log_file = NoFile
    /\ DriverIdle /\ FlakeIdle /\ CmdIdle /\ LogIdle /\ ExecIdle
    /\ HostIdle /\ ProgressIdle /\ ConcIdle /\ CliIdle
    /\ gfl_i = 0
    /\ gfl_ran = <<>>
    /\ gfl_result = "none"
    /\ shell_env = ContainerEnv
    /\ flake_pkg = DefaultPkg
    /\ crate \in Crates
    /\ \E existing \in {"absent", "rw-r--r--", "rw-rw-rw-"} :
          /\ flake_lock = IF existing = "absent" THEN "absent" ELSE "present"
          /\ flake_lock_mode = IF existing = "absent" THEN "rw-r--r--"
                               ELSE existing

SpecLock == InitLock /\ [][NextLock]_vars

\* C32: generate_flake_lock runs its commands in list order and stops at
\* the first one that exits non-zero, returning an error; and whenever it
\* returns Ok, the last command has found flake.lock in the metadata
\* directory and has set its permissions to rw-rw-rw-.
C32_LockVerifiedWhenOk ==
    /\ \A k \in DOMAIN gfl_ran :
          /\ gfl_ran[k].c = commands[k]
          /\ gfl_ran[k].exit \notin {<<>>, <<0>>}
                => k = Len(gfl_ran) /\ gfl_result = "Err"
    /\ gfl_result = "Ok"
          => /\ Len(gfl_ran) = Len(commands)
             /\ flake_lock = "present"
             /\ flake_lock_mode = "rw-rw-rw-"

\* the command at position k of the list was started and exited with 0
ExitedZero(k) == k \in DOMAIN gfl_ran /\ gfl_ran[k].exit = <<0>>

\* C33: what an earlier command of the list set in its shell is there for
\* the later ones: NIX_CONFIG from the first command on, PACKAGE_NAME and
\* PACKAGE_VERSION from the commands that extract them on; so that after
\* the update command flake.nix holds the name and version of the project.
C33_ShellStateCarriesOver ==
    /\ Len(gfl_ran) >= 1 => shell_env["NIX_CONFIG"] # ""
    /\ ExitedZero(5) => shell_env["PACKAGE_NAME"] = Extracted("pname")
    /\ ExitedZero(6) => shell_env["PACKAGE_VERSION"] = Extracted("version")
    /\ ExitedZero(5) /\ ExitedZero(6) /\ ExitedZero(8) => flake_pkg = crate

\* ==================================================================== main
\* A string of the command line or of repx.toml is a sequence of pieces: a
\* piece is a comma, a space, or a run of other characters.
Comma == ","
Space == " "

\* the pieces the target strings of SpecCli are made of
TargetPieces == TargetIds \cup {"riscv64-linux-gnu", Space, Comma}

\* an element of the split string that is one piece, as a &str
AsStr(element) == element[1]

\* main.rs:46-56 as the elements `AVAILABLE_TARGETS.contains` accepts
AvailableElements == {<<id>> : id \in AVAILABLE_TARGETS}

\* main.rs:248, str::split(','): the pieces between the commas
RECURSIVE Split(_)
Split(str) ==
    LET commas == {k \in DOMAIN str : str[k] = Comma} IN
    IF commas = {} THEN <<str>>
    ELSE LET first == CHOOSE k \in commas : \A j \in commas : k <= j
         IN <<SubSeq(str, 1, first - 1)>>
                \o Split(SubSeq(str, first + 1, Len(str)))

\* main.rs:58-89 on an x86_64 Linux host, which is also the fallback
get_host_target == <<"x86_64-linux-gnu">>

\* merge_config_with_args letting a value of the configuration file win
\* over the command line
merge_config_file_first(config, cli) ==
    IF cli.cmd = "Build"
    THEN [f \in DOMAIN config |->
            IF config[f] # default_config[f] THEN config[f]
            ELSE IF cli[f] = <<>> THEN config[f]
            ELSE IF f = "targets" THEN <<cli[f][1]>> ELSE cli[f][1]]
    ELSE config

\* main.rs:138-165
merge_config_with_args(config, cli) ==
    IF cli.cmd = "Build"
    THEN [project |-> IF cli.project # <<>> THEN cli.project[1]
                      ELSE config.project,
          image |-> IF cli.image # <<>> THEN cli.image[1] ELSE config.image,
          targets |-> IF cli.targets # <<>> THEN <<cli.targets[1]>>
                      ELSE config.targets,
          extra |-> IF cli.extra # <<>> THEN cli.extra[1] ELSE config.extra,
          rust_channel |-> IF cli.rust_channel # <<>>
                           THEN cli.rust_channel[1] ELSE config.rust_channel,
          rust_version |-> IF cli.rust_version # <<>>
                           THEN cli.rust_version[1] ELSE config.rust_version,
          nixpkgs_url |-> IF cli.nixpkgs_url # <<>>
                          THEN cli.nixpkgs_url[1] ELSE config.nixpkgs_url]
    ELSE config

\* main returns
MainReturn(res) ==
    /\ main_result' = res
    /\ pc' = "main_done"

\* main.rs:216-223: --list-targets returns at once; the error of
\* load_config is propagated
MainLoad ==
    /\ pc = "main"
    /\ args.cmd = "Build"
    /\ IF args.list_targets THEN MainReturn(<<"Ok">>)
       ELSE \E loaded \in BOOLEAN :
               IF loaded THEN pc' = "main_merge" /\ UNCHANGED main_result
               ELSE MainReturn(<<"Err", "load_config">>)
    /\ UNCHANGED <<args, base_config, final_config, merges, split_targets,
                   target_path, repx_toml, init_runs>>
    /\ UNCHANGED <<targets, ti, all_builds_successful, build_result, result,
                   failedAt, container, cleanupCalls, cleanupFailed>>
    /\ UNCHANGED <<flakeVars, cmdVars, logVars, execVars, hostVars, progVars,
                   concVars, lockVars>>

\* main.rs:226-237: the merge, then the project path and its Cargo.toml
\* must exist
MainMerge ==
    /\ pc = "main_merge"
    /\ final_config' = merge_config_with_args(base_config, args)
    /\ merges' = merges + 1
    /\ \E found \in {"none", "project", "manifest"} :
          CASE found = "none" -> MainReturn(<<"Err", "Invalid project path">>)
            [] found = "project" -> MainReturn(<<"Err", "Missing Cargo.toml">>)
            [] found = "manifest" ->
                  pc' = "main_targets" /\ UNCHANGED main_result
    /\ UNCHANGED <<args, base_config, split_targets, target_path, repx_toml,
                   init_runs>>
    /\ UNCHANGED <<targets, ti, all_builds_successful, build_result, result,
                   failedAt, container, cleanupCalls, cleanupFailed>>
    /\ UNCHANGED <<flakeVars, cmdVars, logVars, execVars, hostVars, progVars,
                   concVars, lockVars>>

\* build_with_nix being called for every split element, valid or not
MainTargetsUnchecked(elements) ==
    /\ targets' = [k \in DOMAIN elements |->
                     IF elements[k] \in AvailableElements
                     THEN AsStr(elements[k]) ELSE "x86_64-linux-gnu"]
    /\ pc' = "start"
    /\ UNCHANGED main_result

\* main.rs:250-270: the first element that is not an available target
\* returns the error; otherwise build_with_nix is called with the elements
MainTargetsChecked(elements) ==
    LET invalid == {k \in DOMAIN elements :
                        elements[k] \notin AvailableElements} IN
    IF invalid # {}
    THEN LET first == CHOOSE k \in invalid : \A j \in invalid : k <= j
         IN /\ MainReturn(<<"Err", "Invalid target", elements[first]>>)
            /\ UNCHANGED targets
    ELSE /\ targets' = [k \in DOMAIN elements |-> AsStr(elements[k])]
         /\ pc' = "start"
         /\ UNCHANGED main_result

\* main.rs:239-270
MainTargets ==
    /\ pc = "main_targets"
    /\ LET target_string == IF final_config.targets # <<>>
                            THEN final_config.targets[1]
                            ELSE get_host_target
       IN /\ split_targets' = Split(target_string)
          /\ MainTargetsChecked(Split(target_string))
    /\ UNCHANGED <<args, base_config, final_config, merges, target_path,
                   repx_toml, init_runs>>
    /\ UNCHANGED <<ti, all_builds_successful, build_result, result,
                   failedAt, container, cleanupCalls, cleanupFailed>>
    /\ UNCHANGED <<flakeVars, cmdVars, logVars, execVars, hostVars, progVars,
                   concVars, lockVars>>

\* main.rs:272-295: after build_with_nix returned; on Ok main looks for
\* the artifacts in <project>/target/repx
MainReport ==
    /\ pc = "done"
    /\ split_targets # <<>>
    /\ IF result = "Ok"
       THEN /\ target_path' = <<"project", "target", "repx">>
            /\ MainReturn(<<"Ok">>)
       ELSE /\ MainReturn(<<"Err", "build_with_nix">>)
            /\ UNCHANGED target_path
    /\ UNCHANGED <<args, base_config, final_config, merges, split_targets,
                   repx_toml, init_runs>>
    /\ UNCHANGED <<targets, ti, all_builds_successful, build_result, result,
                   failedAt, container, cleanupCalls, cleanupFailed>>
    /\ UNCHANGED <<flakeVars, cmdVars, logVars, execVars, hostVars, progVars,
                   concVars, lockVars>>

NextCli == MainLoad \/ MainMerge \/ MainTargets \/ MainReport \/ Next

\* the command lines of SpecCli: `repx build` with or without --targets
\* and --list-targets
CliTargetArgs ==
    {[NoArgs EXCEPT !.targets = tg, !.list_targets = lt] :
        tg \in {<<>>} \cup {<<str>> : str \in SeqsUpTo(TargetPieces, MaxPieces)},
        lt \in BOOLEAN}

\* main is called; repx.toml names a target or none
InitCli ==
    /\ pc = "main"
    /\ targets = <<>>
    /\ container = "none"
    /\ flakeFile = Absent
    /\ rendered \in SessionRendered
    /\ log_file = NoFile
    /\ DriverIdle /\ FlakeIdle /\ CmdIdle /\ LogIdle /\ ExecIdle
    /\ HostIdle /\ ProgressIdle /\ ConcIdle /\ LockIdle
    /\ args \in CliTargetArgs
    /\ base_config \in
          {default_config,
           [default_config EXCEPT !.targets = << <<"x86_64-pc-windows-msvc">> >>]}
    /\ final_config = <<>>
    /\ merges = 0
    /\ split_targets = <<>>
    /\ main_result = <<>>
    /\ target_path = <<>>
    /\ repx_toml = Absent
    /\ init_runs = <<>>

SpecCli == InitCli /\ [][NextCli]_vars

\* main returned the 'Invalid target' error
InvalidTargetReturned ==
    IF Len(main_result) = 3 THEN main_result[2] = "Invalid target" ELSE FALSE

\* C34: from the build command, build_with_nix runs only with targets that
\* are all in AVAILABLE_TARGETS; when an element of the comma-split target
\* string is not in the list main returns the 'Invalid target' error with
\* no descriptor written, no container created and no log file opened; and
\* a string of available targets is not refused.
C34_OnlyAvailableTargetsReachBuild ==
    /\ pc \notin {"main", "main_merge", "main_targets", "main_done"}
          => \A k \in DOMAIN targets : targets[k] \in AVAILABLE_TARGETS
    /\ (\E k \in DOMAIN split_targets :
            split_targets[k] \notin AvailableElements)
          => /\ pc = "main_done"
             /\ InvalidTargetReturned
             /\ flakeWrites = 0 /\ tempFile = Absent
             /\ container = "none"
             /\ log_file = NoFile
    /\ (split_targets # <<>>
          /\ \A k \in DOMAIN split_targets :
                 split_targets[k] \in AvailableElements)
          => /\ pc # "main_done" => targets = [k \in DOMAIN split_targets |->
                                                 AsStr(split_targets[k])]
             /\ ~InvalidTargetReturned
    /\ \A id \in AVAILABLE_TARGETS : parse_target(id)[1] = id

\* main split a string into an available target and an element that is
\* none, and refused it for the second
C34_Witness ==
    /\ pc = "main_done"
    /\ Len(split_targets) = 2
    /\ split_targets[1] \in AvailableElements
    /\ main_result = <<"Err", "Invalid target", split_targets[2]>>

\* ------------------------------------------------- merge_config_with_args
\* the fields of RepxConfig, config.rs:7-34
ConfigFields ==
    {"project", "image", "targets", "extra", "rust_channel", "rust_version",
     "nixpkgs_url"}

\* what repx.toml may give a field, beside leaving it to its default
FileValue(f) ==
    CASE f = "project" -> "crates/app"
      [] f = "image" -> "nixos/nix:2.18.1"
      [] f = "targets" -> << <<"x86_64-linux-musl">> >>
      [] f = "extra" -> <<"openssl">>
      [] f = "rust_channel" -> "nightly"
      [] f = "rust_version" -> "1.75.0"
      [] f = "nixpkgs_url" -> "github:NixOS/nixpkgs/nixos-24.05"

\* what the command line may give a field, as the content of its Some
CliValue(f) ==
    CASE f = "project" -> "."
      [] f = "image" -> "nixos/nix:2.20.0"
      [] f = "targets" -> <<"aarch64-linux-gnu">>
      [] f = "extra" -> <<"pkg-config", "curl">>
      [] f = "rust_channel" -> "stable"
      [] f = "rust_version" -> "1.80.0"
      [] f = "nixpkgs_url" -> "github:NixOS/nixpkgs/nixos-unstable"

\* main.rs:123-136, the configurations load_config returns: the default
\* one, or the file's with the defaults for the fields it leaves out
LoadedConfigs ==
    {[f \in ConfigFields |->
        IF f \in given THEN FileValue(f) ELSE default_config[f]] :
     given \in SUBSET ConfigFields}

\* the command lines of SpecMerge: `repx build` with any of the seven
\* options, and `repx init`
MergeArgs ==
    {[f \in DOMAIN NoArgs |->
        IF f \in given THEN <<CliValue(f)>> ELSE NoArgs[f]] :
     given \in SUBSET ConfigFields}
    \cup {[NoArgs EXCEPT !.cmd = "Init"]}

\* main.rs:226, the merge of the loaded configuration
MergeLoaded ==
    /\ pc = "merge"
    /\ merges = 0
    /\ final_config' = merge_config_with_args(base_config, args)
    /\ merges' = 1
    /\ UNCHANGED <<args, base_config, split_targets, main_result, target_path,
                   repx_toml, init_runs>>
    /\ UNCHANGED <<driverVars, flakeVars, cmdVars, logVars, execVars, hostVars,
                   progVars, concVars, lockVars>>

\* the merge applied to its own result, with the same arguments
MergeAgain ==
    /\ pc = "merge"
    /\ merges >= 1
    /\ merges < MaxMerges
    /\ final_config' = merge_config_with_args(final_config, args)
    /\ merges' = merges + 1
    /\ UNCHANGED <<args, base_config, split_targets, main_result, target_path,
                   repx_toml, init_runs>>
    /\ UNCHANGED <<driverVars, flakeVars, cmdVars, logVars, execVars, hostVars,
                   progVars, concVars, lockVars>>

NextMerge == MergeLoaded \/ MergeAgain

InitMerge ==
    /\ pc = "merge"
    /\ targets = <<>>
    /\ container = "none"
    /\ flakeFile = Absent
    /\ rendered = <<>>
    /\ log_file = NoFile
    /\ DriverIdle /\ FlakeIdle /\ CmdIdle /\ LogIdle /\ ExecIdle
    /\ HostIdle /\ ProgressIdle /\ ConcIdle /\ LockIdle
    /\ args \in MergeArgs
    /\ base_config \in LoadedConfigs
    /\ final_config = <<>>
    /\ merges = 0
    /\ split_targets = <<>>
    /\ main_result = <<>>
    /\ target_path = <<>>
    /\ repx_toml = Absent
    /\ init_runs = <<>>

SpecMerge == InitMerge /\ [][NextMerge]_vars

\* the command line supplies field f
Supplied(f) == args.cmd = "Build" /\ args[f] # <<>>

\* C35: after merge_config_with_args, applied once or again to its own
\* result, every field is the command line's value when the command line
\* supplied one, and the loaded configuration's value otherwise.
C35_CommandLineTakesPrecedence ==
    final_config # <<>> =>
       /\ DOMAIN final_config = ConfigFields
       /\ \A f \in ConfigFields :
             final_config[f] =
                IF Supplied(f)
                THEN IF f = "targets" THEN args[f] ELSE args[f][1]
                ELSE base_config[f]

\* merged twice, for a command line that supplies an image and no
\* targets, over a repx.toml that sets both
C35_Witness ==
    /\ merges = MaxMerges
    /\ Supplied("image") /\ ~Supplied("targets")
    /\ base_config.image = FileValue("image")
    /\ base_config.targets = FileValue("targets")
    /\ final_config.image = CliValue("image")
    /\ final_config.targets = FileValue("targets")

\* ------------------------------------------------------------ init_config
\* config.rs:79-83, toml::to_string_pretty: the fields by name, an Option
\* that is None left out and one that is Some written as its content
to_toml(config) ==
    <<"toml",
      [f \in {g \in DOMAIN config :
                 IF g = "targets" THEN config[g] # <<>> ELSE TRUE} |->
          IF f = "targets" THEN config[f][1] ELSE config[f]]>>

\* what fs::write may leave behind when it fails: nothing written, or the
\* file created or truncated and not filled
Truncated == <<"">>

\* the repx.toml a `repx init` may find: none, the default one, one the
\* user wrote
FoundTomls ==
    {Absent, to_toml(default_config),
     to_toml([default_config EXCEPT !.targets = FileValue("targets"),
                                    !.rust_channel = "nightly"])}

\* init_config returning at once whatever the flag
KeepsExistingAlways(exists, force) == exists

\* main.rs:196, `Path::new(config_path).exists() && !force`
KeepsExisting(exists, force) == exists /\ ~force

\* main.rs:193-209, one run of `repx init`, with --force or without; the
\* error of to_file is propagated
InitConfig ==
    /\ pc = "init"
    /\ Len(init_runs) < MaxInitRuns
    /\ \E force \in BOOLEAN, written \in {"all", "none", "part"} :
          IF KeepsExisting(repx_toml # Absent, force)
          THEN /\ written = "all"
               /\ init_runs' = Append(init_runs,
                                      [force |-> force, res |-> "Ok"])
               /\ UNCHANGED repx_toml
          ELSE /\ repx_toml' =
                     CASE written = "all" -> to_toml(default_config)
                       [] written = "none" -> repx_toml
                       [] written = "part" -> Truncated
               /\ init_runs' =
                     Append(init_runs,
                            [force |-> force,
                             res |-> IF written = "all" THEN "Ok" ELSE "Err"])
    /\ UNCHANGED <<args, base_config, final_config, merges, split_targets,
                   main_result, target_path>>
    /\ UNCHANGED <<driverVars, flakeVars, cmdVars, logVars, execVars, hostVars,
                   progVars, concVars, lockVars>>

NextInit == InitConfig

InitInit ==
    /\ pc = "init"
    /\ targets = <<>>
    /\ container = "none"
    /\ flakeFile = Absent
    /\ rendered = <<>>
    /\ log_file = NoFile
    /\ DriverIdle /\ FlakeIdle /\ CmdIdle /\ LogIdle /\ ExecIdle
    /\ HostIdle /\ ProgressIdle /\ ConcIdle /\ LockIdle
    /\ args = [NoArgs EXCEPT !.cmd = "Init"]
    /\ base_config = default_config
    /\ final_config = <<>>
    /\ merges = 0
    /\ split_targets = <<>>
    /\ main_result = <<>>
    /\ target_path = <<>>
    /\ repx_toml \in FoundTomls
    /\ init_runs = <<>>

SpecInit == InitInit /\ [][NextInit]_vars

\* the run of init_config that this step is
ThisRun == init_runs'[Len(init_runs')]

\* C36: a run of init_config that finds repx.toml and has no --force returns
\* Ok and leaves the file as it is; a run that finds none, or has --force,
\* and returns Ok has written the default configuration; so a second run
\* without --force keeps what the first one wrote.
C36_InitKeepsExistingFile ==
    [][init_runs' # init_runs =>
          /\ (repx_toml # Absent /\ ~ThisRun.force)
                => ThisRun.res = "Ok" /\ repx_toml' = repx_toml
          /\ (repx_toml = Absent \/ ThisRun.force) /\ ThisRun.res = "Ok"
                => repx_toml' = to_toml(default_config)]_vars

\* two runs without --force: the first wrote the default configuration,
\* the second found it
C36_Witness ==
    /\ Len(init_runs) = 2
    /\ \A k \in 1..2 : ~init_runs[k].force /\ init_runs[k].res = "Ok"
    /\ repx_toml = to_toml(default_config)

\* execute_build.rs:27, `./target/repro-build` in the directory the commands
\* run in: the root under which the per-target directories are made
output_root == working_dir \o <<"target", "repro-build">>

\* C37: after a successful build the directory in which main looks for
\* the artifacts is the output root under which execute_nix_build made the
\* directories of the targets.
C37_ReportedDirIsOutputRoot ==
    main_result = <<"Ok">> /\ outDirs # {}
        => target_path = HostPathOf(output_root)

====
